---- MODULE Spec2Model ----
(***************************************************************************)
(* A model of the privacy-cv-optimizer redaction engine (lib/redact:       *)
(* redactPII, assertNoPIILeakage) and of the HTTP routes that call it.     *)
(*                                                                         *)
(* Text is a sequence of one-character strings.  Every regular expression  *)
(* of the source is written as a syntax tree and run by one backtracking   *)
(* matcher that tries alternatives and greedy quantifiers in the priority  *)
(* order of ECMAScript, so the span a pass replaces is the span            *)
(* String.prototype.replace would replace.  Character classes are the      *)
(* source's classes restricted to the characters listed below.             *)
(***************************************************************************)
EXTENDS Integers, Sequences, FiniteSets, TLC

\* ------------------------------------------------------------------ characters

Upper == {"A","B","C","D","E","F","G","H","I","J","K","L","M",
          "N","O","P","Q","R","S","T","U","V","W","X","Y","Z"}
Lower == {"a","b","c","d","e","f","g","h","i","j","k","l","m",
          "n","o","p","q","r","s","t","u","v","w","x","y","z"}
Digit == {"0","1","2","3","4","5","6","7","8","9"}
\* Characters outside ASCII are written by their code points; each of these
\* strings is one character.
AUml == "<U+00C4>"
OUml == "<U+00D6>"
UUml == "<U+00DC>"
aUml == "<U+00E4>"
oUml == "<U+00F6>"
uUml == "<U+00FC>"
SharpS == "<U+00DF>"
EnDash == "<U+2013>"
UmlautUpper == {AUml, OUml, UUml}
UmlautLower == {aUml, oUml, uUml}
Eszett == {SharpS}
\* \s
Space == {" ", "\t", "\n", "\r"}
\* \w, which also decides \b (ASCII only, with or without the u flag)
WordChar == Upper \cup Lower \cup Digit \cup {"_"}
\* [A-Z] under the i flag
AsciiLetter == Upper \cup Lower
\* \p{L}
UniLetter == Upper \cup Lower \cup UmlautUpper \cup UmlautLower \cup Eszett

UpperSeq == <<"A","B","C","D","E","F","G","H","I","J","K","L","M",
              "N","O","P","Q","R","S","T","U","V","W","X","Y","Z",AUml,OUml,UUml>>
LowerSeq == <<"a","b","c","d","e","f","g","h","i","j","k","l","m",
              "n","o","p","q","r","s","t","u","v","w","x","y","z",aUml,oUml,uUml>>

\* The characters that match c under the i flag.
CaseVariants(c) ==
  {c} \cup {LowerSeq[k] : k \in {j \in 1..Len(UpperSeq) : UpperSeq[j] = c}}
      \cup {UpperSeq[k] : k \in {j \in 1..Len(LowerSeq) : LowerSeq[j] = c}}

\* ------------------------------------------------------- regular expressions

Set(S) == [t |-> "set", s |-> S]
NotSet(S) == [t |-> "nset", s |-> S]
Ch(c) == [t |-> "set", s |-> {c}]
ChI(c) == [t |-> "set", s |-> CaseVariants(c)]
Cat(rs) == [t |-> "cat", rs |-> rs]
Alt(rs) == [t |-> "alt", rs |-> rs]
\* ( r ), the expression's first capturing group
Group(r) == [t |-> "group", r |-> r]
\* r{lo,hi}, greedy; hi = -1 is "no upper limit"
Rep(r, lo, hi) == [t |-> "rep", r |-> r, lo |-> lo, hi |-> hi]
Opt(r) == Rep(r, 0, 1)
Star(r) == Rep(r, 0, -1)
Plus(r) == Rep(r, 1, -1)
WB == [t |-> "wb"]
Bol == [t |-> "bol"]
Eol == [t |-> "eol"]
\* a literal string, and the same under the i flag
Lit(cs) == Cat([k \in 1..Len(cs) |-> Ch(cs[k])])
LitI(cs) == Cat([k \in 1..Len(cs) |-> ChI(cs[k])])

IsWordAt(s, i) == i >= 1 /\ i <= Len(s) /\ s[i] \in WordChar
\* \b holds between positions i-1 and i
IsWordBoundary(s, i) == IsWordAt(s, i - 1) # IsWordAt(s, i)

\* The matcher.  rs is the list of expressions still to match from position
\* i of s (1-based) and cap the span <<from, to>> captured so far by the
\* first capturing group (<<0, 0>> for none).  The result is <<e, from, to>>
\* for the first complete match in backtracking order, e being the position
\* after it, or NoMatch.
NoMatch == <<0, 0, 0>>

\* whether character c matches the one-character expression r
CharMatches(r, c) == IF r.t = "set" THEN c \in r.s ELSE c \notin r.s

\* the first position in a..b of s whose character does not match r, b + 1
\* when they all match (a <= b)
RECURSIVE FirstStop(_, _, _, _)
FirstStop(r, s, a, b) ==
  IF a = b THEN (IF CharMatches(r, s[a]) THEN b + 1 ELSE a)
  ELSE LET mid == (a + b) \div 2
           l == FirstStop(r, s, a, mid)
       IN IF l <= mid THEN l ELSE FirstStop(r, s, mid + 1, b)

\* A greedy quantifier over a one-character expression r first takes the
\* longest run: the number of characters from position i on that match r,
\* at most hi of them (hi = -1: any number).
RunLen(r, s, i, hi) ==
  LET last == IF hi = -1 \/ i + hi - 1 > Len(s) THEN Len(s) ELSE i + hi - 1
  IN IF i > last \/ ~CharMatches(r, s[i]) THEN 0 ELSE FirstStop(r, s, i, last) - i

RECURSIVE MatchSeq(_, _, _, _)
RECURSIVE MatchAlt(_, _, _, _, _)
RECURSIVE GiveBack(_, _, _, _, _, _)
MatchSeq(rs, s, i, cap) ==
  IF rs = <<>> THEN <<i, cap[1], cap[2]>>
  ELSE
    LET r == Head(rs)
        k == Tail(rs)
    IN CASE r.t = "set" ->
              IF i <= Len(s) /\ s[i] \in r.s THEN MatchSeq(k, s, i + 1, cap) ELSE NoMatch
         [] r.t = "nset" ->
              IF i <= Len(s) /\ s[i] \notin r.s THEN MatchSeq(k, s, i + 1, cap) ELSE NoMatch
         [] r.t = "wb" -> IF IsWordBoundary(s, i) THEN MatchSeq(k, s, i, cap) ELSE NoMatch
         [] r.t = "bol" -> IF i = 1 THEN MatchSeq(k, s, i, cap) ELSE NoMatch
         [] r.t = "eol" -> IF i = Len(s) + 1 THEN MatchSeq(k, s, i, cap) ELSE NoMatch
         [] r.t = "cat" -> MatchSeq(r.rs \o k, s, i, cap)
         [] r.t = "alt" -> MatchAlt(r.rs, k, s, i, cap)
         [] r.t = "group" -> MatchSeq(<<r.r, [t |-> "close", from |-> i]>> \o k, s, i, cap)
         [] r.t = "close" -> MatchSeq(k, s, i, <<r.from, i>>)
         [] r.t = "rep" /\ r.r.t \in {"set", "nset"} ->
              GiveBack(k, s, i, r.lo, RunLen(r.r, s, i, r.hi), cap)
         [] r.t = "rep" ->
              LET again == Rep(r.r, IF r.lo > 0 THEN r.lo - 1 ELSE 0,
                                    IF r.hi > 0 THEN r.hi - 1 ELSE r.hi)
                  more == IF r.hi = 0 THEN NoMatch
                          ELSE MatchSeq(<<r.r, again>> \o k, s, i, cap)
              IN IF more # NoMatch THEN more
                 ELSE IF r.lo = 0 THEN MatchSeq(k, s, i, cap) ELSE NoMatch

\* ... and then gives the run back one character at a time until the rest of
\* the expression matches: the rest k is tried after c characters, for c from
\* hi down to lo.
GiveBack(k, s, i, lo, hi, cap) ==
  IF lo > hi THEN NoMatch
  ELSE IF lo = hi THEN MatchSeq(k, s, i + lo, cap)
  ELSE LET mid == (lo + hi + 1) \div 2
           m == GiveBack(k, s, i, mid, hi, cap)
       IN IF m # NoMatch THEN m ELSE GiveBack(k, s, i, lo, mid - 1, cap)

MatchAlt(as, k, s, i, cap) ==
  IF as = <<>> THEN NoMatch
  ELSE LET m == MatchSeq(<<Head(as)>> \o k, s, i, cap)
       IN IF m # NoMatch THEN m ELSE MatchAlt(Tail(as), k, s, i, cap)

\* The leftmost match of re in s starting at or after position pos:
\* [start, end) as 1-based positions, start = 0 when there is none; captured
\* tells whether the expression's first capturing group took part, and group1
\* is the text it captured.
NotFound == [start |-> 0, end |-> 0, captured |-> FALSE, group1 |-> <<>>]
Matched(s, pos, m) ==
  IF m = NoMatch THEN NotFound
  ELSE [start |-> pos, end |-> m[1], captured |-> m[2] # 0,
        group1 |-> SubSeq(s, m[2], m[3] - 1)]
\* the match of re in s that starts at pos
MatchAt(re, s, pos) == Matched(s, pos, MatchSeq(<<re>>, s, pos, <<0, 0>>))
\* the match at the first of the positions a..b that has one (a <= b)
RECURSIVE FindIn(_, _, _, _)
FindIn(re, s, a, b) ==
  IF a = b THEN MatchAt(re, s, a)
  ELSE LET mid == (a + b) \div 2
           l == FindIn(re, s, a, mid)
       IN IF l.start # 0 THEN l ELSE FindIn(re, s, mid + 1, b)
Find(re, s, pos) ==
  IF pos > Len(s) + 1 THEN NotFound ELSE FindIn(re, s, pos, Len(s) + 1)

\* RegExp.prototype.test
Test(re, s) == Find(re, s, 1).start # 0

\* String.prototype.includes
Occurs(sub, s) ==
  \E p \in 1..(Len(s) - Len(sub) + 1) : SubSeq(s, p, p + Len(sub) - 1) = sub

\* -------------------------------------------------------------- string helpers

Min(a, b) == IF a < b THEN a ELSE b
Max(a, b) == IF a > b THEN a ELSE b

\* String.prototype.slice(a, b) for 0 <= a: 0-based, half-open, clamped
Slice(s, a, b) == SubSeq(s, a + 1, Min(b, Len(s)))

\* String.prototype.trim
RECURSIVE TrimStart(_)
TrimStart(s) == IF s # <<>> /\ Head(s) \in Space THEN TrimStart(Tail(s)) ELSE s
RECURSIVE TrimEnd(_)
TrimEnd(s) ==
  IF s # <<>> /\ s[Len(s)] \in Space THEN TrimEnd(SubSeq(s, 1, Len(s) - 1)) ELSE s
Trim(s) == TrimEnd(TrimStart(s))

DigitSeq == <<"0","1","2","3","4","5","6","7","8","9">>
\* the decimal digits of n >= 0, as template-literal interpolation writes them
RECURSIVE Decimal(_)
Decimal(n) ==
  IF n < 10 THEN <<DigitSeq[n + 1]>>
  ELSE Decimal(n \div 10) \o <<DigitSeq[(n % 10) + 1]>>

\* the text of a RedactionPlaceholder
TypeName(type) ==
  CASE type = "EMAIL" -> <<"E","M","A","I","L">>
    [] type = "PHONE" -> <<"P","H","O","N","E">>
    [] type = "ADDRESS" -> <<"A","D","D","R","E","S","S">>
    [] type = "POSTAL_CODE" -> <<"P","O","S","T","A","L","_","C","O","D","E">>
    [] type = "DOB" -> <<"D","O","B">>
    [] type = "DATE" -> <<"D","A","T","E">>
    [] type = "URL" -> <<"U","R","L">>
    [] type = "ID" -> <<"I","D">>
    [] type = "NAME" -> <<"N","A","M","E">>

\* a faulty token: the type and the number without the brackets
BareToken(type, n) == TypeName(type) \o <<"_">> \o Decimal(n)

stableToken(type, n) == <<"[">> \o TypeName(type) \o <<"_">> \o Decimal(n) \o <<"]">>

\* ------------------------------------------------- the engine's expressions

D == Set(Digit)
SepOpt == Opt(Set(Space \cup {"-"}))
UrlBody == Plus(NotSet(Space \cup {")", "]"}))

\* /\b[A-Z0-9._%+-]+@[A-Z0-9.-]+\.[A-Z]{2,}\b/i
EmailRe ==
  Cat(<<WB, Plus(Set(AsciiLetter \cup Digit \cup {".", "_", "%", "+", "-"})),
        Ch("@"), Plus(Set(AsciiLetter \cup Digit \cup {".", "-"})),
        Ch("."), Rep(Set(AsciiLetter), 2, -1), WB>>)

\* /\bhttps?:\/\/[^\s)\]]+|\bwww\.[^\s)\]]+/i
UrlRe ==
  Alt(<<Cat(<<WB, LitI(<<"h","t","t","p">>), Opt(ChI("s")), Lit(<<":","/","/">>), UrlBody>>),
        Cat(<<WB, LitI(<<"w","w","w">>), Ch("."), UrlBody>>)>>)

\* /(?:(?:\+|00)\s?\d{1,3}[\s\-]?)?(?:\(?\d{2,5}\)?[\s\-]?)\d{3,}(?:[\s\-]?\d{2,})+/
PhoneRe ==
  Cat(<<Opt(Cat(<<Alt(<<Ch("+"), Lit(<<"0","0">>)>>), Opt(Set(Space)), Rep(D, 1, 3), SepOpt>>)),
        Cat(<<Opt(Ch("(")), Rep(D, 2, 5), Opt(Ch(")")), SepOpt>>),
        Rep(D, 3, -1),
        Plus(Cat(<<SepOpt, Rep(D, 2, -1)>>))>>)

\* /^\d{4}\s?[-<U+2013>]\s?\d{4}$/
YearRangeRe ==
  Cat(<<Bol, Rep(D, 4, 4), Opt(Set(Space)), Set({"-", EnDash}), Opt(Set(Space)), Rep(D, 4, 4), Eol>>)

\* /\b\d{4,5}\b/
PostalRe == Cat(<<WB, Rep(D, 4, 5), WB>>)

\* /\b(19|20)\d{2}\b/
YearRe == Cat(<<WB, Alt(<<Lit(<<"1","9">>), Lit(<<"2","0">>)>>), Rep(D, 2, 2), WB>>)

\* /[.\-/]/
DateSepRe == Set({".", "-", "/"})

StreetSuffix ==
  Alt(<<LitI(<<"s","t","r","a",SharpS,"e">>), LitI(<<"s","t","r",".">>),
        LitI(<<"s","t","r","a","s","s","e">>), LitI(<<"w","e","g">>),
        LitI(<<"a","l","l","e","e">>), LitI(<<"g","a","s","s","e">>),
        LitI(<<"r","i","n","g">>), LitI(<<"p","l","a","t","z">>),
        LitI(<<"d","a","m","m">>), LitI(<<"u","f","e","r">>)>>)

\* /\b([A-Z<AUml><OUml><UUml>][\p{L}<SharpS><aUml><oUml><uUml>.-]{2,}\s?(?:stra<SharpS>e|...|ufer))\s+\d{1,4}\s?[a-zA-Z]?\b/iu
AddressRe ==
  Cat(<<WB,
        Group(Cat(<<Set(AsciiLetter \cup UmlautUpper \cup UmlautLower),
                    Rep(Set(UniLetter \cup {".", "-"}), 2, -1), Opt(Set(Space)),
                    StreetSuffix>>)),
        Plus(Set(Space)), Rep(D, 1, 4), Opt(Set(Space)), Opt(Set(AsciiLetter)), WB>>)

DateSep == Set({".", "/", "-"})
\* \d{1,2}[./-]\d{1,2}[./-]\d{2,4}|\d{4}-\d{2}-\d{2}
DateShape ==
  Alt(<<Cat(<<Rep(D, 1, 2), DateSep, Rep(D, 1, 2), DateSep, Rep(D, 2, 4)>>),
        Cat(<<Rep(D, 4, 4), Ch("-"), Rep(D, 2, 2), Ch("-"), Rep(D, 2, 2)>>)>>)

\* /(geb\.?|geboren|date of birth|dob)\s*[:\-]?\s*(<date>)/i
DobRe ==
  Cat(<<Group(Alt(<<Cat(<<LitI(<<"g","e","b">>), Opt(Ch("."))>>),
                    LitI(<<"g","e","b","o","r","e","n">>),
                    LitI(<<"d","a","t","e"," ","o","f"," ","b","i","r","t","h">>),
                    LitI(<<"d","o","b">>)>>)),
        Star(Set(Space)), Opt(Set({":", "-"})), Star(Set(Space)), DateShape>>)

\* /\b(<date>)\b/
DateRe == Cat(<<WB, Group(DateShape), WB>>)

\* /\b([A-Z]{2}\d{2}[A-Z0-9]{11,30}|\d{11}\b|\d{2}\/\d{3}\/\d{3}\/\d{3})\b/
IdRe ==
  Cat(<<WB,
        Group(Alt(<<Cat(<<Rep(Set(Upper), 2, 2), Rep(D, 2, 2), Rep(Set(Upper \cup Digit), 11, 30)>>),
                    Cat(<<Rep(D, 11, 11), WB>>),
                    Cat(<<Rep(D, 2, 2), Ch("/"), Rep(D, 3, 3), Ch("/"), Rep(D, 3, 3), Ch("/"), Rep(D, 3, 3)>>)>>)),
        WB>>)

\* /^[A-Z<AUml><OUml><UUml>][\p{L}<SharpS><aUml><oUml><uUml>'-]+$/u
NameTokenRe ==
  Cat(<<Bol, Set(Upper \cup UmlautUpper), Plus(Set(UniLetter \cup {"'", "-"})), Eol>>)

\* /(GmbH|AG|UG|Inc\.|LLC|University|Universit<aUml>t|Hochschule)/i
OrgRe ==
  Alt(<<LitI(<<"G","m","b","H">>), LitI(<<"A","G">>), LitI(<<"U","G">>),
        LitI(<<"I","n","c",".">>), LitI(<<"L","L","C">>),
        LitI(<<"U","n","i","v","e","r","s","i","t","y">>),
        LitI(<<"U","n","i","v","e","r","s","i","t",aUml,"t">>),
        LitI(<<"H","o","c","h","s","c","h","u","l","e">>)>>)

\* /\bhttps?:\/\//i
HttpRe == Cat(<<WB, LitI(<<"h","t","t","p">>), Opt(ChI("s")), Lit(<<":","/","/">>)>>)

\* --------------------------------------------------------- the replace passes

\* phone pass: /^\d{4}\s?[-<U+2013>]\s?\d{4}$/.test(m.trim())
PhoneExcluded(m) == Test(YearRangeRe, Trim(m))

\* a faulty exclusion: one that reads the characters before the match only
PostalBeforeOnly(m, offset, src) ==
  Test(YearRe, m) /\ Test(DateSepRe, Slice(src, Max(0, offset.n - 10), offset.n))

\* postal-code pass: a 19xx/20xx year with a date separator within 10
\* characters on either side, read from the text the pass started with
PostalExcluded(m, offset, src) ==
  LET before == Slice(src, Max(0, offset.n - 10), offset.n)
      after == Slice(src, offset.n + Len(m), offset.n + Len(m) + 10)
  IN Test(YearRe, m) /\ Test(DateSepRe, before \o after)

\* whether the pass's callback returns the match unchanged
Excluded(type, m, offset, src) ==
  CASE type = "PHONE" -> PhoneExcluded(m)
    [] type = "POSTAL_CODE" -> PostalExcluded(m, offset, src)
    [] OTHER -> FALSE

\* what the pass's callback returns for its n-th counted match
Replacement(type, n) ==
  IF type = "DOB" THEN <<"D","O","B",":"," ">> \o stableToken("DOB", n)
  ELSE stableToken(type, n)

\* A value passed as the callback's second parameter and stored as a record's
\* index: a number, or a string
Num(n) == [kind |-> "number", n |-> n, s |-> <<>>]
Str(s) == [kind |-> "string", n |-> 0, s |-> s]

\* The second argument String.prototype.replace passes to its callback
\* (m, offset) => ...: the first capturing group's text when the expression
\* has one, and only otherwise the offset of the match.
SecondArgument(m) == IF m.captured THEN Str(m.group1) ELSE Num(m.start - 1)

\* the audit record add() pushes
Redaction(type, match, index, replacement) ==
  [type |-> type, match |-> match, index |-> index, replacement |-> replacement]

\* text.replace(re, callback) for a global expression: the matches are found
\* left to right in src.  copied is the position up to which src has been
\* written out, search the position the next search starts at (one past an
\* empty match); acc holds the output so far, the records pushed and the
\* counter i.
RECURSIVE ReplaceFrom(_, _, _, _, _, _)
RECURSIVE ReplaceMatch(_, _, _, _, _, _)
ReplaceFrom(type, re, src, copied, search, acc) ==
  ReplaceMatch(type, re, src, copied, acc, Find(re, src, search))

\* a faulty callback: one that counts the candidates it skips as well
CountingSkipped(type, str, offset, src, gap, n, acc) ==
  IF Excluded(type, str, offset, src)
  THEN [acc EXCEPT !.text = @ \o gap \o str, !.i = n]
  ELSE [text |-> acc.text \o gap \o Replacement(type, n),
        recs |-> Append(acc.recs, Redaction(type, str, offset, Replacement(type, n))),
        i |-> n]

\* the callback's result for the match str counted as the n-th, written to acc
Callback(type, str, offset, src, gap, n, acc) ==
  IF Excluded(type, str, offset, src)
  THEN [acc EXCEPT !.text = @ \o gap \o str]
  ELSE [text |-> acc.text \o gap \o Replacement(type, n),
        recs |-> Append(acc.recs, Redaction(type, str, offset, Replacement(type, n))),
        i |-> n]

\* the step of the replace for the next match m (none: the rest is copied)
ReplaceMatch(type, re, src, copied, acc, m) ==
  IF m.start = 0
  THEN [acc EXCEPT !.text = @ \o SubSeq(src, copied, Len(src))]
  ELSE ReplaceFrom(type, re, src, m.end,
                   IF m.end = m.start THEN m.end + 1 ELSE m.end,
                   Callback(type, SubSeq(src, m.start, m.end - 1), SecondArgument(m), src,
                            SubSeq(src, copied, m.start - 1), acc.i + 1, acc))

\* a faulty counter: one shared by the blocks and the calls, carried over
\* from the block run before
KeptCounter(prev) == prev

\* the counter a block declares: let i = 0
FreshCounter(prev) == 0

\* one block of redactPII: { const re = ...; let i = 0; text = text.replace(...) }
RunPass(type, re, src, prev) ==
  ReplaceFrom(type, re, src, 1, 1, [text |-> <<>>, recs |-> <<>>, i |-> FreshCounter(prev)])

\* ------------------------------------------------------ the display-name pass

\* the characters of /[.*+?^${}()|[\]\\]/
SyntaxChars == {".", "*", "+", "?", "^", "$", "{", "}", "(", ")", "|", "[", "]", "\\"}

\* a faulty escape: one that leaves parentheses as they are
RECURSIVE EscapeWithoutParens(_)
EscapeWithoutParens(d) ==
  IF d = <<>> THEN <<>>
  ELSE (IF Head(d) \in SyntaxChars \ {"(", ")"} THEN <<"\\", Head(d)>> ELSE <<Head(d)>>)
       \o EscapeWithoutParens(Tail(d))

\* displayName.replace(/[.*+?^${}()|[\]\\]/g, "\\$&")
RECURSIVE EscapeRegExp(_)
EscapeRegExp(d) ==
  IF d = <<>> THEN <<>>
  ELSE (IF Head(d) \in SyntaxChars THEN <<"\\", Head(d)>> ELSE <<Head(d)>>)
       \o EscapeRegExp(Tail(d))

\* new RegExp(pattern, "g"): the pattern's text is parsed into an expression,
\* or the constructor throws a SyntaxError (ok = FALSE).  The grammar covered
\* is the one escaped literal text needs, plus the forms an unescaped syntax
\* character takes: . ^ $ | ( ) the quantifiers * + ? and a bracketed
\* class of listed characters ({ } and a lone ] are literal).
ParseError == [ok |-> FALSE, re |-> WB, next |-> 0]
Parsed(re, next) == [ok |-> TRUE, re |-> re, next |-> next]

RECURSIVE ParseClass(_, _, _)
ParseClass(p, k, acc) ==
  IF k > Len(p) THEN ParseError
  ELSE IF p[k] = "]" THEN Parsed(Set(acc), k + 1)
  ELSE IF p[k] = "\\"
       THEN IF k = Len(p) THEN ParseError
            ELSE ParseClass(p, k + 2, acc \cup {p[k + 1]})
  ELSE ParseClass(p, k + 1, acc \cup {p[k]})

\* the position of the pattern's first unescaped "(", 0 when it has none
RECURSIVE FirstParen(_, _)
FirstParen(p, k) ==
  IF k > Len(p) THEN 0
  ELSE IF p[k] = "\\" THEN FirstParen(p, k + 2)
  ELSE IF p[k] = "(" THEN k
  ELSE FirstParen(p, k + 1)

RECURSIVE ParseDisjunction(_, _)
RECURSIVE ParseAlternative(_, _, _)
RECURSIVE ParseAtom(_, _)

\* an escape \e
Escaped(e) ==
  CASE e = "b" -> WB
    [] e = "d" -> D
    [] e = "w" -> Set(WordChar)
    [] e = "s" -> Set(Space)
    [] OTHER -> Ch(e)

\* the group opened at k, d being the disjunction parsed after the "("
Grouped(p, k, d) ==
  IF d.ok /\ d.next <= Len(p) /\ p[d.next] = ")"
  THEN Parsed(IF FirstParen(p, 1) = k THEN Group(d.re) ELSE d.re, d.next + 1)
  ELSE ParseError

ParseAtom(p, k) ==
  CASE p[k] = "\\" -> IF k = Len(p) THEN ParseError ELSE Parsed(Escaped(p[k + 1]), k + 2)
    [] p[k] = "." -> Parsed(NotSet({"\n", "\r"}), k + 1)
    [] p[k] = "^" -> Parsed(Bol, k + 1)
    [] p[k] = "$" -> Parsed(Eol, k + 1)
    [] p[k] = "(" -> Grouped(p, k, ParseDisjunction(p, k + 1))
    [] p[k] = "[" -> ParseClass(p, k + 1, {})
    [] p[k] \in {"*", "+", "?"} -> ParseError
    [] OTHER -> Parsed(Ch(p[k]), k + 1)

\* the atom a with the quantifier that follows it, if any
Quantified(p, a) ==
  IF a.ok /\ a.next <= Len(p) /\ p[a.next] \in {"*", "+", "?"}
  THEN IF a.re.t \in {"wb", "bol", "eol"} THEN ParseError
       ELSE Parsed(CASE p[a.next] = "*" -> Star(a.re)
                     [] p[a.next] = "+" -> Plus(a.re)
                     [] OTHER -> Opt(a.re),
                   a.next + 1)
  ELSE a

ParseTerm(p, k) == Quantified(p, ParseAtom(p, k))

\* the alternative acc continued by the term t
RECURSIVE Continued(_, _, _)
Continued(p, acc, t) ==
  IF t.ok THEN ParseAlternative(p, t.next, Append(acc, t.re)) ELSE ParseError

ParseAlternative(p, k, acc) ==
  IF k > Len(p) \/ p[k] \in {"|", ")"} THEN Parsed(Cat(acc), k)
  ELSE Continued(p, acc, ParseTerm(p, k))

\* a | b
Disjoined(a, b) == IF b.ok THEN Parsed(Alt(<<a.re, b.re>>), b.next) ELSE ParseError

\* the alternative a with the disjunction that follows it, if any
RECURSIVE Alternatives(_, _)
Alternatives(p, a) ==
  IF a.ok /\ a.next <= Len(p) /\ p[a.next] = "|"
  THEN Disjoined(a, ParseDisjunction(p, a.next + 1))
  ELSE a

ParseDisjunction(p, k) == Alternatives(p, ParseAlternative(p, k, <<>>))

\* the pattern p is an expression when d, parsed from its start, is all of it
Compiled(p, d) == [ok |-> d.ok /\ d.next = Len(p) + 1, re |-> d.re]

NewRegExp(p) == Compiled(p, ParseDisjunction(p, 1))

\* new RegExp(`\\b${esc}\\b`, "g")
DisplayNamePattern(displayName) ==
  <<"\\", "b">> \o EscapeRegExp(displayName) \o <<"\\", "b">>

\* ------------------------------------------------------ the name-line heuristic

\* /\r?\n/
LineBreakRe == Cat(<<Opt(Ch("\r")), Ch("\n")>>)

\* String.prototype.split with a separator expression that matches no empty
\* string: the pieces between successive matches
RECURSIVE SplitFrom(_, _, _)
RECURSIVE SplitAt(_, _, _, _)
SplitFrom(re, s, pos) == SplitAt(re, s, pos, Find(re, s, pos))
\* the pieces of s from pos on, m being the separator's next match
SplitAt(re, s, pos, m) ==
  IF m.start = 0 \/ m.start > Len(s) THEN <<SubSeq(s, pos, Len(s))>>
  ELSE <<SubSeq(s, pos, m.start - 1)>> \o SplitFrom(re, s, m.end)
Split(re, s) == SplitFrom(re, s, 1)

\* Array.prototype.join
RECURSIVE Join(_, _)
Join(parts, sep) ==
  IF parts = <<>> THEN <<>>
  ELSE IF Len(parts) = 1 THEN parts[1]
  ELSE parts[1] \o sep \o Join(Tail(parts), sep)

\* lines.findIndex((l) => l.trim().length > 0), 1-based, 0 for "not found"
RECURSIVE FindIndexNonEmpty(_, _)
FindIndexNonEmpty(lines, k) ==
  IF k > Len(lines) THEN 0
  ELSE IF Len(Trim(lines[k])) > 0 THEN k
  ELSE FindIndexNonEmpty(lines, k + 1)

\* line.split(/\s+/).filter(Boolean)
Tokens(line) == SelectSeq(Split(Plus(Set(Space)), line), LAMBDA t : t # <<>>)

\* tokens.length >= 2 && tokens.length <= 4 && tokens.every((t) => /.../u.test(t))
AreNameTokens(tokens) ==
  /\ Len(tokens) >= 2
  /\ Len(tokens) <= 4
  /\ \A k \in 1..Len(tokens) : Test(NameTokenRe, tokens[k])

looksLikeName(line) == AreNameTokens(Tokens(line)) /\ ~Test(OrgRe, line)

\* a faulty name-line block: one that joins the split lines again even when
\* the first line is left alone
NameLineRejoined(src, lines, idx) ==
  IF idx >= 1 /\ looksLikeName(Trim(lines[idx]))
  THEN [text |-> Join([lines EXCEPT ![idx] = stableToken("NAME", 1)], <<"\n">>),
        recs |-> <<Redaction("NAME", Trim(lines[idx]), Num(0), stableToken("NAME", 1))>>]
  ELSE [text |-> Join(lines, <<"\n">>), recs |-> <<>>]

\* the name-line block on the lines of src, idx being the index of the first
\* non-empty line (0 for none): the text and the records it leaves
NameLineAt(src, lines, idx) ==
  IF idx >= 1 /\ looksLikeName(Trim(lines[idx]))
  THEN [text |-> Join([lines EXCEPT ![idx] = stableToken("NAME", 1)], <<"\n">>),
        recs |-> <<Redaction("NAME", Trim(lines[idx]), Num(0), stableToken("NAME", 1))>>]
  ELSE [text |-> src, recs |-> <<>>]

NameLineOf(src, lines) == NameLineAt(src, lines, FindIndexNonEmpty(lines, 1))

NameLine(src) == NameLineOf(src, Split(LineBreakRe, src))

\* ------------------------------------------------------- the leakage auditor

\* a faulty auditor: one whose URL test lacks the i flag
AuditCaseSensitive(t) ==
  [hasEmail |-> Test(EmailRe, t),
   hasUrl |-> Test(Cat(<<WB, Lit(<<"h","t","t","p">>), Opt(Ch("s")), Lit(<<":","/","/">>)>>), t)]

assertNoPIILeakage(t) == [hasEmail |-> Test(EmailRe, t), hasUrl |-> Test(HttpRe, t)]

\* ------------------------------------------------------------------ redactPII

\* opts: no displayName (absent or null), or a string
NoName == [given |-> FALSE, v |-> <<>>]
Name(v) == [given |-> TRUE, v |-> v]

\* opts?.displayName?.trim()
TrimmedName(o) == IF o.given THEN Trim(o.v) ELSE <<>>

\* A call between two blocks: let text, const redactions, the counter i of
\* the block last run, and whether the call has thrown.
Running(s) == [text |-> s, redactions |-> <<>>, i |-> 0, threw |-> FALSE]

\* one regular-expression block on the call's text
\* a faulty merge: the block's records put in front of the earlier ones
MergedInFront(st, r) == [st EXCEPT !.text = r.text, !.redactions = r.recs \o @, !.i = r.i]

Merged(st, r) == [st EXCEPT !.text = r.text, !.redactions = @ \o r.recs, !.i = r.i]
Block(st, type, re) == Merged(st, RunPass(type, re, st.text, st.i))

\* if (displayName) { const re = new RegExp(...); text = text.replace(re, ...) }:
\* a SyntaxError thrown by the RegExp constructor leaves redactPII
ReplaceName(st, compiled) ==
  IF ~compiled.ok THEN [st EXCEPT !.threw = TRUE] ELSE Block(st, "NAME", compiled.re)
DisplayNameBlock(st, o) ==
  IF TrimmedName(o) = <<>> THEN st
  ELSE ReplaceName(st, NewRegExp(DisplayNamePattern(TrimmedName(o))))

\* the name-line heuristic
WithNameLine(st, r) == [st EXCEPT !.text = r.text, !.redactions = @ \o r.recs]
NameLineBlock(st) == WithNameLine(st, NameLine(st.text))

\* the call after its display-name block: thrown, or on to the name line
Returned(named) == IF named.threw THEN named ELSE NameLineBlock(named)

\* redactPII(input, opts): the blocks in the order of the source, each on the
\* text the one before it left
EmailBlock(s) == Block(Running(s), "EMAIL", EmailRe)
UrlBlock(s) == Block(EmailBlock(s), "URL", UrlRe)
PhoneBlock(s) == Block(UrlBlock(s), "PHONE", PhoneRe)
PostalCodeBlock(s) == Block(PhoneBlock(s), "POSTAL_CODE", PostalRe)
AddressBlock(s) == Block(PostalCodeBlock(s), "ADDRESS", AddressRe)
DobBlock(s) == Block(AddressBlock(s), "DOB", DobRe)
DateBlock(s) == Block(DobBlock(s), "DATE", DateRe)
IdBlock(s) == Block(DateBlock(s), "ID", IdRe)
redactPII(s, o) == Returned(DisplayNameBlock(IdBlock(s), o))

\* ------------------------------------------------------------ inputs, bounds

\* the pieces input strings are put together from
Fragments ==
  { <<"a","@","b",".","c","c">>,
    <<" ","a","@","b",".","c","c","_">>,
    <<"1","2","3","4","5","6","7">>,
    <<" ">>,
    <<"1",".","1",".","9","0">>,
    <<" ","2","0","2","0">>,
    <<"-","2","0","2","3">>,
    <<"w","w","w",".","x","/">>,
    <<"\r","\n">>,
    <<"M","a","x"," ","M","a","i">>,
    <<OUml,"z">>,
    <<"[","E","M","A","I","L","_">> }

\* an input has at most MaxFrags fragments when no display name is given,
\* and at most MaxNamedFrags when one is
MaxFrags == 2
MaxNamedFrags == 1
\* redactPII is called at most MaxCalls times in a run
MaxCalls == 3

RECURSIVE Concats(_)
Concats(n) ==
  IF n = 0 THEN {<<>>}
  ELSE LET shorter == Concats(n - 1)
       IN shorter \cup {s \o f : s \in shorter, f \in Fragments}

Named ==
  { Name(<<>>),
    Name(<<" "," ">>),
    Name(<<"M","a","x"," ","M","a","i">>),
    Name(<<OUml,"z">>),
    Name(<<"(">>),
    Name(<<"E","M","A","I","L","_","1">>) }

\* Whole inputs, besides the concatenations: the spec's examples and their
\* neighbours.  Street names with house numbers of one to four digits:
Streets == {<<"H","a","u","p","t","s","t","r","a",SharpS,"e">>, <<"H","a","u","p","t","s","t","r",".">>}
HouseNumbers == {<<"5">>, <<"1","2">>, <<"1","2","3">>, <<"1","2","3","4">>, <<"1","2","a">>, <<"1","2","3","4"," ","a">>}
AddressSamples == {s \o <<" ">> \o n : s \in Streets, n \in HouseNumbers}

\* labelled dates of birth
DobLabels == {<<"g","e","b",".">>, <<"g","e","b","o","r","e","n">>, <<"D","a","t","e"," ","o","f"," ","B","i","r","t","h",":">>, <<"D","O","B">>}
DobDates == {<<"1","2",".","0","5",".","1","9","9","0">>, <<"1","-","5","-","9","0">>, <<"1","2","/","0","5","/","1","9","9","0">>, <<"1","9","9","0","-","0","5","-","1","2">>}
DobSamples ==
  {l \o <<" ">> \o d : l \in DobLabels, d \in DobDates}
    \cup {<<"g","e","b","."," ","1","2",".","0","5",".","1","9","9","0","\n","0","1","7","1",
        " ","1","2","3","4","5","6","7">>}

\* year ranges, alone and next to other years
YearRangeSamples ==
  { <<"G","e","b","u","r","t","s","j","a","h","r"," ","2","0","2","0","-","2","0","2","3">>,
    <<"2","0","2","0"," ","-"," ","2","0","2","3">>,
    <<"2","0","2","0",EnDash,"2","0","2","3">>,
    <<"2","0","1","9"," ","2","0","2","0","-","2","0","2","3">>,
    <<"2","0","1","5","-","2","0","1","8"," ","2","0","2","0","-","2","0","2","3">> }

\* texts with several matches of one pass, skipped candidates among them,
\* and matches of a later pass to the left of an earlier one's
OrderSamples ==
  { <<"1",".","1",".","2","0","2","0"," ","u","n","d"," ","d","a","n","n"," ","n","o","c",
      "h"," ","1","2","3","4","5">>,
    <<"0","1","5","1"," ","1","2","3","4","5","6","7"," ","a","@","b",".","c","c"," ","x",
        "@","y",".","d","e">>,
    <<"w","w","w",".","x",".","d","e"," ","2","0","2","0">>,
    <<"M","a","x"," ","M","a","i","\n","M","a","x"," ","M","a","i">> }

\* texts the engine leaves alone and the auditor reports
AuditSamples == {<<"H","T","T","P",":","/","/">>, <<"x","h","t","t","p",":","/","/">>, <<"A","@","B",".","C","C">>}

\* identifiers: an IBAN, an IBAN-like token without a long run of digits, a
\* bare 11-digit sequence, and a grouped tax id
IdSamples ==
  { <<"D","E","8","9","3","7","0","4","0","0","4","4","0","5","3","2","0","1","3","0","0",
      "0">>,
    <<"A","B","1","2","C","D","3","4","E","F","5","6","G","H","7","8","I">>,
    <<"1","2","3","4","5","6","7","8","9","0","1">>,
    <<"1","2","/","3","4","5","/","6","7","8","/","9","0","1">> }

\* first lines of two capitalised words: a surname with the letters of a
\* marker inside it, a hyphen and an apostrophe, a company, white space
\* and blank lines around the name
NameLineSamples ==
  { <<"M","a","x"," ","W","a","g","n","e","r">>,
    <<"A","n","n","a","-","L","e","n","a"," ","O","'","N","e","i","l","\r","\n","B","e",
        "r","l","i","n">>,
    <<"M","a","x"," ","M","a","i"," ","G","m","b","H">>,
    <<"M","a","x"," ","M","a","i"," ","A","G","\n","B","e","r","l","i","n">>,
    <<"\n"," "," ","M","a","x"," ","M","a","i"," ","\r","\n","B","e","r","l","i","n","\r",
        "\n">> }

\* years and postal codes side by side: a year without a separator near
\* it, a year with one, a separator eleven characters away, a 5-digit run
PostalSamples ==
  { <<"2","0","2","0"," ","W","i","e","n",","," ","s","e","i","t"," ","2","0","1","9","/",
      "0","5"," ","i","n"," ","1","0","1","1","5">>,
    <<"1","9","9","9"," ","u","n","d"," ","1","9","0","0","0",","," ","2","0","0","1",".">>,
    <<"s","e","i","t"," ","2","0","2","0"," ","b","i","s"," ","h","e","u","t","e","."," ",
        "2","0","2","1">>,
    <<"x","."," ","1","2","3","4","5","6","7","8","9"," ","2","0","2","0">>,
    <<"a","@","b",".","c","c"," ","2","0","2","0",","," ","s","e","i","t"," ","2","0","1","9","/","0","5">> }

\* a display name that is the first line, and an email address further down
MaxMustermann == <<"M","a","x"," ","M","u","s","t","e","r","m","a","n","n">>
OezHaug == <<OUml,"z"," ","H","a","u","g">>
OezMai == <<OUml,"z"," ","M","a","i">>
CvTail == <<"\n","S","o","f","t","w","a","r","e"," ","E","n","g","i","n","e","e","r","\n","m","a",
    "x","@","e","x","a","m","p","l","e",".","c","o","m">>
NamedSamples == {<<d \o CvTail, Name(d)>> : d \in {MaxMustermann, OezHaug, OezMai}}

\* a display name further down, below another name on the first line
TwoNames == <<<<"E","r","i","k","a"," ","M","a","i","\n","M","a","x"," ","M","a","i">>, Name(<<"M","a","x"," ","M","a","i">>)>>

Samples ==
  {<<s, NoName>> : s \in AddressSamples \cup DobSamples \cup YearRangeSamples
                          \cup OrderSamples \cup AuditSamples \cup IdSamples
                          \cup NameLineSamples \cup PostalSamples}
    \cup NamedSamples \cup {TwoNames}

\* the arguments of a first call
Arguments ==
  {<<s, NoName>> : s \in Concats(MaxFrags)}
    \cup {<<s, o>> : s \in Concats(MaxNamedFrags), o \in Named}
    \cup Samples

\* ------------------------------------------------------- JSON, as the routes use it

\* JSON.parse.  The grammar covered: objects, arrays, strings without escape
\* sequences, and unsigned integers, with white space between the tokens.
\* A value is a record: t is "str" (s its text), "num" (n its value), "arr"
\* (items its elements) or "obj" (items its members [k, v], in order).
JsonWs == {" ", "\t", "\n", "\r"}
JStr(s) == [t |-> "str", s |-> s, n |-> 0, items |-> <<>>]
JNum(n) == [t |-> "num", s |-> <<>>, n |-> n, items |-> <<>>]
JArr(items) == [t |-> "arr", s |-> <<>>, n |-> 0, items |-> items]
JObj(items) == [t |-> "obj", s |-> <<>>, n |-> 0, items |-> items]
JUndefined == [t |-> "undefined", s |-> <<>>, n |-> 0, items |-> <<>>]
JsonFail == [ok |-> FALSE, v |-> JUndefined, next |-> 0]
JsonOk(v, next) == [ok |-> TRUE, v |-> v, next |-> next]

SkipWs(s, p) == p + RunLen(Set(JsonWs), s, p, -1)

\* the number a run of decimal digits denotes
RECURSIVE ToNumber(_)
ToNumber(ds) ==
  IF ds = <<>> THEN 0
  ELSE 10 * ToNumber(SubSeq(ds, 1, Len(ds) - 1))
       + (CHOOSE d \in 0..9 : DigitSeq[d + 1] = ds[Len(ds)])

\* a string token whose opening quote is at p
JsonString(s, p) ==
  LET q == p + 1 + RunLen(NotSet({"\"", "\\", "\n", "\r", "\t"}), s, p + 1, -1)
  IN IF q <= Len(s) /\ s[q] = "\"" THEN JsonOk(JStr(SubSeq(s, p + 1, q - 1)), q + 1)
     ELSE JsonFail

RECURSIVE JsonValue(_, _)
RECURSIVE JsonElements(_, _, _)
RECURSIVE JsonMembers(_, _, _)
JsonValue(s, from) ==
  LET p == SkipWs(s, from)
  IN IF p > Len(s) THEN JsonFail
     ELSE IF s[p] = "\"" THEN JsonString(s, p)
     ELSE IF s[p] \in Digit
     THEN LET n == RunLen(D, s, p, -1)
          IN JsonOk(JNum(ToNumber(SubSeq(s, p, p + n - 1))), p + n)
     ELSE IF s[p] = "["
     THEN LET q == SkipWs(s, p + 1)
          IN IF q <= Len(s) /\ s[q] = "]" THEN JsonOk(JArr(<<>>), q + 1)
             ELSE JsonElements(s, p + 1, <<>>)
     ELSE IF s[p] = "{"
     THEN LET q == SkipWs(s, p + 1)
          IN IF q <= Len(s) /\ s[q] = "}" THEN JsonOk(JObj(<<>>), q + 1)
             ELSE JsonMembers(s, p + 1, <<>>)
     ELSE JsonFail

\* the elements of an array from position p on, acc being those read so far
JsonElements(s, p, acc) ==
  LET v == JsonValue(s, p)
  IN IF ~v.ok THEN JsonFail
     ELSE LET q == SkipWs(s, v.next)
          IN IF q > Len(s) THEN JsonFail
             ELSE IF s[q] = "," THEN JsonElements(s, q + 1, Append(acc, v.v))
             ELSE IF s[q] = "]" THEN JsonOk(JArr(Append(acc, v.v)), q + 1)
             ELSE JsonFail

\* the members of an object from position p on, acc being those read so far
JsonMembers(s, p, acc) ==
  LET kp == SkipWs(s, p)
  IN IF kp > Len(s) \/ s[kp] # "\"" THEN JsonFail
     ELSE LET k == JsonString(s, kp)
          IN IF ~k.ok THEN JsonFail
             ELSE LET c == SkipWs(s, k.next)
                  IN IF c > Len(s) \/ s[c] # ":" THEN JsonFail
                     ELSE LET v == JsonValue(s, c + 1)
                          IN IF ~v.ok THEN JsonFail
                             ELSE LET q == SkipWs(s, v.next)
                                      member == [k |-> k.v.s, v |-> v.v]
                                  IN IF q > Len(s) THEN JsonFail
                                     ELSE IF s[q] = ","
                                     THEN JsonMembers(s, q + 1, Append(acc, member))
                                     ELSE IF s[q] = "}"
                                     THEN JsonOk(JObj(Append(acc, member)), q + 1)
                                     ELSE JsonFail

\* JSON.parse(content): ok = FALSE when it throws
WholeText(s, r) ==
  IF r.ok /\ SkipWs(s, r.next) = Len(s) + 1 THEN [ok |-> TRUE, data |-> r.v]
  ELSE [ok |-> FALSE, data |-> JUndefined]
JSONParse(s) == WholeText(s, JsonValue(s, 1))

\* data[key]: the value of the last member of that name
Member(data, key) ==
  LET found == {j \in 1..Len(data.items) : data.items[j].k = key}
  IN IF data.t # "obj" \/ found = {} THEN JUndefined
     ELSE data.items[CHOOSE j \in found : \A m \in found : m <= j].v

\* ------------------------------------------------------------ the HTTP routes

\* request schemas
MinText == 50
MAX_JOB == 12000
MAX_RESUME == 30000
MAX_ANSWERS == 2000
MaxClarifications == 2000
MinName == 2
MinAnswers == 1
\* score schemas
MinScore == 0
MaxScore == 100
MaxItems == 6

\* A field of a request body: absent, or a string.  The body itself is Null
\* when the request carried no valid JSON (req.json().catch(() => null)).
Absent == [present |-> FALSE, v |-> <<>>]
Field(v) == [present |-> TRUE, v |-> v]
Null == [json |-> FALSE, jobText |-> Absent, resumeText |-> Absent, resumeBefore |-> Absent,
         resumeAfter |-> Absent, displayName |-> Absent, answers |-> Absent,
         clarifications |-> Absent]
Body(job, resume, after, name, extra) ==
  [json |-> TRUE, jobText |-> job, resumeText |-> resume, resumeBefore |-> resume,
   resumeAfter |-> after, displayName |-> name, answers |-> extra, clarifications |-> extra]

\* z.string().min(lo).max(hi)
IsString(f, lo, hi) == f.present /\ Len(f.v) >= lo /\ Len(f.v) <= hi
\* z.string().min(lo)
IsStringMin(f, lo) == f.present /\ Len(f.v) >= lo
\* z.string().max(hi).optional()
IsOptionalString(f, hi) == ~f.present \/ Len(f.v) <= hi

\* a faulty validation: one that takes any JSON body
SchemaSkipped(b) == b.json

\* ReqSchema.safeParse(body).success, per route
OptimizeReqOk(b) ==
  /\ b.json
  /\ IsStringMin(b.resumeText, MinText)
  /\ IsStringMin(b.jobText, MinText)
  /\ IsStringMin(b.displayName, MinName)
RefineReqOk(b) ==
  /\ b.json
  /\ IsString(b.jobText, MinText, MAX_JOB)
  /\ IsString(b.resumeText, MinText, MAX_RESUME)
  /\ IsStringMin(b.displayName, MinName)
  /\ IsString(b.answers, MinAnswers, MAX_ANSWERS)
ScoreV1ReqOk(b) ==
  /\ b.json
  /\ IsString(b.jobText, MinText, MAX_JOB)
  /\ IsString(b.resumeBefore, MinText, MAX_RESUME)
  /\ IsString(b.resumeAfter, MinText, MAX_RESUME)
  /\ IsStringMin(b.displayName, MinName)
ScoreReqOk(b) ==
  /\ ScoreV1ReqOk(b)
  /\ IsOptionalString(b.clarifications, MaxClarifications)

\* the request texts
JobAd == <<"W","i","r"," ","s","u","c","h","e","n"," ","P","r","o","d","u","c","t"," ","M","a","n",
    "a","g","e","r"," ","(","m","/","w","/","d",")","."," ","K","o","n","t","a","k","t",":",
    " ","h","r","@","x",".","d","e">>
Resume == <<"M","a","x"," ","M","a","i","\n","P","r","o","d","u","c","t"," ","M","a","n","a","g",
    "e","r",","," ","B","e","r","l","i","n","\n","m","a","x","@","m","a","i",".","d","e",
    "\n","R","o","a","d","m","a","p","s",","," ","D","i","s","c","o","v","e","r","y">>
ResumeAfter == <<"[","N","A","M","E","_","1","]","\n","P","r","o","d","u","c","t"," ","M","a","n","a",
    "g","e","r"," ","m","i","t"," ","F","o","k","u","s"," ","a","u","f"," ","D","i","s","c",
    "o","v","e","r","y",","," ","B","e","r","l","i","n">>
TooShort == <<"P","r","o","d","u","c","t"," ","M","a","n","a","g","e","r">>
Clarification == <<"M","a","x"," ","M","a","i",","," ","a","@","b",".","c","c">>
MaxMai == <<"M","a","x"," ","M","a","i">>

Bodies ==
  {Null}
    \cup {Body(job, Field(Resume), Field(ResumeAfter), name, extra) :
            job \in {Field(JobAd), Field(TooShort)},
            name \in {Absent, Field(<<"M">>), Field(<<" ", " ">>), Field(MaxMai)},
            extra \in {Absent, Field(Clarification)}}

\* what the model may answer
Prose == <<"M","a","x"," ","M","a","i"," ","a","@","b",".","c","c">>
EmptyObject == <<"{","}">>
ResultDoc == <<"{","\"","s","u","m","m","a","r","y","\"",":","\"","M","a","x"," ","M","a","i",","," ",
    "a","@","b",".","c","c","\"",",","\"","q","u","e","s","t","i","o","n","s","\"",":","[",
    "]","}">>
ScoreDoc ==
  <<"{","\"","s","c","o","r","e","_","b","e","f","o","r","e","\"",":","4","0",",","\"","s",
    "c","o","r","e","_","a","f","t","e","r","\"",":","7","0",",","\"","r","e","a","s","o",
    "n","s","_","i","m","p","r","o","v","e","d","\"",":","[","\"","M","a","x"," ","M","a",
    "i"," ","a","@","b",".","c","c","\"","]",",","\"","g","a","p","s","_","b","e","f","o",
    "r","e","\"",":","[","]",",","\"","g","a","p","s","_","a","f","t","e","r","\"",":","[",
    "]","}">>
ScoreV1Doc ==
  <<"{","\"","s","c","o","r","e","_","b","e","f","o","r","e","\"",":","4","0",",","\"","s",
    "c","o","r","e","_","a","f","t","e","r","\"",":","7","0",",","\"","r","e","a","s","o",
    "n","s","_","i","m","p","r","o","v","e","d","\"",":","[","\"","M","a","x"," ","M","a",
    "i"," ","a","@","b",".","c","c","\"","]",",","\"","r","e","m","a","i","n","i","n","g",
    "_","r","i","s","k","s","\"",":","[","]","}">>
Contents == {Prose, EmptyObject, ResultDoc, ScoreDoc, ScoreV1Doc}

\* How the awaited client.chat.completions.create(...) ends: it rejects, or
\* it resolves with a message content (a string, or none).
Rejected == [resolved |-> FALSE, hasContent |-> FALSE, content |-> <<>>]
NoContent == [resolved |-> TRUE, hasContent |-> FALSE, content |-> <<>>]
Answer(c) == [resolved |-> TRUE, hasContent |-> TRUE, content |-> c]
Completions == {Rejected, NoContent} \cup {Answer(c) : c \in Contents}

\* completion.choices[0]?.message?.content ?? "{}"
ContentOf(completion) == IF completion.hasContent THEN completion.content ELSE EmptyObject

\* redactPII(s, { displayName }).text
RedactedText(s, displayName) == redactPII(s, Name(displayName)).text

\* a faulty output sanitation: the model content as it came
Unsanitized(content, displayName) == content

\* Output sanitation of the optimize and refine routes:
\* redactedOut = redactPII(content, { displayName }).text
Sanitize(content, displayName) == RedactedText(content, displayName)

\* the keys of the score schemas
ScoreBefore == <<"s","c","o","r","e","_","b","e","f","o","r","e">>
ScoreAfter == <<"s","c","o","r","e","_","a","f","t","e","r">>
ReasonsImproved == <<"r","e","a","s","o","n","s","_","i","m","p","r","o","v","e","d">>
GapsBefore == <<"g","a","p","s","_","b","e","f","o","r","e">>
GapsAfter == <<"g","a","p","s","_","a","f","t","e","r">>
RemainingRisks == <<"r","e","m","a","i","n","i","n","g","_","r","i","s","k","s">>
ScoreLists == <<ReasonsImproved, GapsBefore, GapsAfter>>
ScoreV1Lists == <<ReasonsImproved, RemainingRisks>>

\* z.number().min(0).max(100)
IsScoreNumber(v) == v.t = "num" /\ v.n >= MinScore /\ v.n <= MaxScore
\* z.array(z.string()).max(6)
IsStringList(v) ==
  /\ v.t = "arr"
  /\ Len(v.items) <= MaxItems
  /\ \A j \in 1..Len(v.items) : v.items[j].t = "str"

\* ScoreSchema.safeParse(data): success, and the data kept (the schema's
\* keys, in the schema's order)
Kept(data, keys) == [j \in 1..Len(keys) |-> [k |-> keys[j], v |-> Member(data, keys[j])]]
Checked(data, keys, ok) == [success |-> ok, data |-> IF ok THEN Kept(data, keys) ELSE <<>>]
ScoreSchemaParse(data, lists) ==
  Checked(data, <<ScoreBefore, ScoreAfter>> \o lists,
          /\ data.t = "obj"
          /\ IsScoreNumber(Member(data, ScoreBefore))
          /\ IsScoreNumber(Member(data, ScoreAfter))
          /\ \A j \in 1..Len(lists) : IsStringList(Member(data, lists[j])))

\* The calls a handler makes, in order of time.
Redacted(arg, displayName) ==
  [op |-> "redactPII", arg |-> arg, name |-> displayName, prompt |-> <<>>]
Audited(arg) == [op |-> "assertNoPIILeakage", arg |-> arg, name |-> <<>>, prompt |-> <<>>]
\* the LLM call, with the texts interpolated into the user message
Asked(prompt) == [op |-> "llm", arg |-> <<>>, name |-> <<>>, prompt |-> prompt]

\* the calls of redactPII on the texts ts of a request with body b, and the
\* texts they return
RedactCalls(b, ts) == [j \in 1..Len(ts) |-> Redacted(ts[j], b.displayName.v)]
RedactedTexts(b, ts) == [j \in 1..Len(ts) |-> RedactedText(ts[j], b.displayName.v)]

\* A response: NextResponse.json(...) with its status; error is the body's
\* error text, resultJson and leakage the body of optimize and refine, data
\* the body of the score routes (scored.data), redacted the texts the optimize
\* route returns with its 500.
NoLeakage == [hasEmail |-> FALSE, hasUrl |-> FALSE]
NoResponse ==
  [status |-> 0, error |-> "", result |-> FALSE, resultJson |-> <<>>, leakage |-> NoLeakage,
   data |-> <<>>, redacted |-> <<>>]
Failure(status, error) == [NoResponse EXCEPT !.status = status, !.error = error]
\* a rejected promise the handler does not catch: the framework answers 500
Unhandled == Failure(500, "Internal Server Error")

\* ---------------------------------------------------------------------- the page

\* the page's text fields are filled in anew at most MaxForms - 1 times
MaxForms == 2

\* the scores the score route may return
Scores == {40, 55}

\* a number | null
NoNumber == [null |-> TRUE, n |-> 0]
Number(n) == [null |-> FALSE, n |-> n]

\* resultObj: null, or the parsed result, with questions or without
NoResult == [null |-> TRUE, questions |-> FALSE]
ResultObj(questions) == [null |-> FALSE, questions |-> questions]

\* score: null, or the scores shown
NoScore == [null |-> TRUE, score_before |-> 0, score_after |-> 0]
Score(before, after) == [null |-> FALSE, score_before |-> before, score_after |-> after]

\* A call of onSubmit or of the refine button's onClick: the fetch it is
\* waiting for ("none" when no call is in flight), and what its closure holds
\* of the render it was made in: baselineBeforeScore and the texts.
NotRunning == [awaits |-> "none", baselineBeforeScore |-> NoNumber, form |-> 0]
InFlight(awaits, baseline, texts) ==
  [awaits |-> awaits, baselineBeforeScore |-> baseline, form |-> texts]

\* the texts an optimize run was scored for, and the score_before it got
NotScored == [form |-> 0, score_before |-> NoNumber]
ScoredFor(texts, before) == [form |-> texts, score_before |-> Number(before)]

\* how an awaited fetch of the optimize or refine route ends: fetch or
\* res.json() rejects, the response is not OK, JSON.parse(raw) throws, or a
\* result is parsed
Outcomes == {"rejected", "notOk", "unparsable", "parsed"}

\* --------------------------------------------------------------------- state

VARIABLES
  pc,          \* where the running redactPII call stands; "idle" before the first call
  input,       \* the call's input string
  opts,        \* the call's options
  text,        \* let text
  redactions,  \* const redactions
  i,           \* the counter of the block last run
  calls,       \* calls started so far
  first,       \* the arguments and the result of the first call (observation)
  audit,       \* the last result of assertNoPIILeakage and the text it was given
  route,       \* the route of the request being handled, "none" before it
  at,          \* where its handler stands: "idle", "awaiting" (the LLM call), "responded"
  body,        \* the request body
  apiKey,      \* whether process.env.OPENAI_API_KEY is set
  content,     \* const content
  response,    \* the response returned
  trace,       \* the calls of redactPII, the LLM and assertNoPIILeakage made so far
  step,        \* the page: const [step, setStep]
  form,        \* which job ad and resume stand in the page's text fields
  busy,        \* const [busy, setBusy]
  error,       \* const [error, setError]
  resultObj,   \* const [resultObj, setResultObj]
  score,       \* const [score, setScore]
  baselineBeforeScore,  \* const [baselineBeforeScore, setBaselineBeforeScore]
  scoreStatus, \* const [scoreStatus, setScoreStatus]
  refineBusy,  \* const [refineBusy, setRefineBusy]
  submitting,  \* the call of onSubmit in flight
  refining,    \* the call of the refine button's onClick in flight
  optimized    \* the scoring of the last optimize run that was scored (observation)

engine == <<pc, input, opts, text, redactions, i, calls, first, audit>>
routes == <<route, at, body, apiKey, content, response, trace>>
page == <<step, form, busy, error, resultObj, score, baselineBeforeScore, scoreStatus,
          refineBusy, submitting, refining, optimized>>
vars == <<pc, input, opts, text, redactions, i, calls, first, audit,
          route, at, body, apiKey, content, response, trace,
          step, form, busy, error, resultObj, score, baselineBeforeScore, scoreStatus,
          refineBusy, submitting, refining, optimized>>

NoCall == [done |-> FALSE, input |-> <<>>, opts |-> NoName, text |-> <<>>, redactions |-> <<>>]
NoAudit == [done |-> FALSE, of |-> <<>>, hasEmail |-> FALSE, hasUrl |-> FALSE]

Init ==
  /\ pc = "idle"
  /\ input = <<>>
  /\ opts = NoName
  /\ text = <<>>
  /\ redactions = <<>>
  /\ i = 0
  /\ calls = 0
  /\ first = NoCall
  /\ audit = NoAudit
  /\ route = "none"
  /\ at = "idle"
  /\ body = Null
  /\ apiKey = FALSE
  /\ content = <<>>
  /\ response = NoResponse
  /\ trace = <<>>
  /\ step = 1
  /\ form = 1
  /\ busy = FALSE
  /\ error = ""
  /\ resultObj = NoResult
  /\ score = NoScore
  /\ baselineBeforeScore = NoNumber
  /\ scoreStatus = "idle"
  /\ refineBusy = FALSE
  /\ submitting = NotRunning
  /\ refining = NotRunning
  /\ optimized = NotScored

\* ----------------------------------------------------- the engine, call by call

\* redactPII(s, o) is entered: let text = input; const redactions = []
Enter(s, o) ==
  /\ calls < MaxCalls
  /\ input' = s
  /\ opts' = o
  /\ text' = s
  /\ redactions' = <<>>
  /\ pc' = "email"
  /\ calls' = calls + 1
  /\ audit' = NoAudit
  /\ UNCHANGED <<i, first>>
  /\ UNCHANGED <<routes, page>>

\* a caller's first call
Call ==
  /\ pc = "idle"
  /\ \E a \in Arguments : Enter(a[1], a[2])

\* a caller passes the text it got back through the engine again (same options)
Rerun ==
  /\ pc = "done"
  /\ Enter(text, opts)

\* after other calls, a caller repeats the first call's arguments
Repeat ==
  /\ pc = "done"
  /\ calls >= 2
  /\ Enter(first.input, first.opts)

\* the call as it stands
Current == [text |-> text, redactions |-> redactions, i |-> i, threw |-> FALSE]

\* the call moves on by one block
Becomes(st, to) ==
  /\ text' = st.text
  /\ redactions' = st.redactions
  /\ i' = st.i
  /\ pc' = IF st.threw THEN "threw" ELSE to

Pass(from, type, re, to) ==
  /\ pc = from
  /\ Becomes(Block(Current, type, re), to)
  /\ UNCHANGED <<input, opts, calls, first, audit>>
  /\ UNCHANGED <<routes, page>>

EmailPass == Pass("email", "EMAIL", EmailRe, "url")
UrlPass == Pass("url", "URL", UrlRe, "phone")
PhonePass == Pass("phone", "PHONE", PhoneRe, "postal")
PostalCodePass == Pass("postal", "POSTAL_CODE", PostalRe, "address")
AddressPass == Pass("address", "ADDRESS", AddressRe, "dob")
DobPass == Pass("dob", "DOB", DobRe, "date")
DatePass == Pass("date", "DATE", DateRe, "id")
IdPass == Pass("id", "ID", IdRe, "name")

DisplayNamePass ==
  /\ pc = "name"
  /\ Becomes(DisplayNameBlock(Current, opts), "nameline")
  /\ UNCHANGED <<input, opts, calls, first, audit>>
  /\ UNCHANGED <<routes, page>>

\* the name-line heuristic, then return { text, redactions }
Returns(st) ==
  /\ Becomes(st, "done")
  /\ first' = IF calls = 1
              THEN [done |-> TRUE, input |-> input, opts |-> opts,
                    text |-> st.text, redactions |-> st.redactions]
              ELSE first
NameLinePass ==
  /\ pc = "nameline"
  /\ Returns(NameLineBlock(Current))
  /\ UNCHANGED <<input, opts, calls, audit>>
  /\ UNCHANGED <<routes, page>>

\* what the auditor said of the text t
Leakage(t, a) == [done |-> TRUE, of |-> t, hasEmail |-> a.hasEmail, hasUrl |-> a.hasUrl]

\* assertNoPIILeakage(text) on the text the last call returned
Audit ==
  /\ pc = "done"
  /\ ~audit.done
  /\ audit' = Leakage(text, assertNoPIILeakage(text))
  /\ UNCHANGED <<pc, input, opts, text, redactions, i, calls, first>>
  /\ UNCHANGED <<routes, page>>

Next ==
  \/ Call
  \/ Rerun
  \/ Repeat
  \/ EmailPass
  \/ UrlPass
  \/ PhonePass
  \/ PostalCodePass
  \/ AddressPass
  \/ DobPass
  \/ DatePass
  \/ IdPass
  \/ DisplayNamePass
  \/ NameLinePass
  \/ Audit

Spec == Init /\ [][Next]_vars

\* ------------------------------------------------- the routes, request by request

\* a request arrives at a route: its body and the server's environment
Arrives(r, b, key) ==
  /\ at = "idle"
  /\ route' = r
  /\ body' = b
  /\ apiKey' = key
  /\ UNCHANGED <<engine, page>>

\* the handler returns a response
Responds(resp, calls_) ==
  /\ at' = "responded"
  /\ response' = resp
  /\ trace' = trace \o calls_

\* the handler awaits the LLM, having made calls_ and sent prompt
Awaits(calls_, prompt) ==
  /\ at' = "awaiting"
  /\ trace' = trace \o calls_ \o <<Asked(prompt)>>
  /\ UNCHANGED response

\* the optimize route's answer when the key is missing
NotConfigured(redacted) ==
  [Failure(500, "Server not configured: missing OPENAI_API_KEY. Redaction succeeded, but no LLM call was made.")
     EXCEPT !.redacted = redacted]

\* POST of the optimize route, up to the LLM call
OptimizePOST ==
  \E b \in Bodies, key \in BOOLEAN :
    /\ Arrives("optimize", b, key)
    /\ UNCHANGED content
    /\ IF ~OptimizeReqOk(b) THEN Responds(Failure(400, "Invalid input"), <<>>)
       ELSE IF ~key
       THEN Responds(NotConfigured(RedactedTexts(b, <<b.resumeText.v, b.jobText.v>>)),
                     RedactCalls(b, <<b.resumeText.v, b.jobText.v>>))
       ELSE Awaits(RedactCalls(b, <<b.resumeText.v, b.jobText.v>>),
                   RedactedTexts(b, <<b.jobText.v, b.resumeText.v>>))

\* POST of the refine route, up to the LLM call
RefinePOST ==
  \E b \in Bodies, key \in BOOLEAN :
    /\ Arrives("refine", b, key)
    /\ UNCHANGED content
    /\ IF ~RefineReqOk(b) THEN Responds(Failure(400, "Invalid input"), <<>>)
       ELSE IF ~key THEN Responds(Failure(500, "Server not configured: missing OPENAI_API_KEY"), <<>>)
       ELSE Awaits(RedactCalls(b, <<b.jobText.v, b.resumeText.v, b.answers.v>>),
                   RedactedTexts(b, <<b.jobText.v, b.resumeText.v, b.answers.v>>))

\* the answer of the optimize and refine routes: the redacted output and what
\* the auditor says of it
Result(redactedOut) ==
  [NoResponse EXCEPT !.status = 200, !.result = TRUE, !.resultJson = redactedOut,
                     !.leakage = assertNoPIILeakage(redactedOut)]

\* output sanitation, then the answer
RespondsSanitized(c, displayName, redactedOut) ==
  Responds(Result(redactedOut), <<Redacted(c, displayName), Audited(redactedOut)>>)

\* the rest of the optimize and refine handlers, once the LLM call has ended
Sanitized(r) ==
  /\ route = r
  /\ at = "awaiting"
  /\ \E completion \in Completions :
       IF ~completion.resolved
       THEN /\ Responds(Unhandled, <<>>)
            /\ UNCHANGED content
       ELSE /\ content' = ContentOf(completion)
            /\ RespondsSanitized(ContentOf(completion), body.displayName.v,
                                 Sanitize(ContentOf(completion), body.displayName.v))
  /\ UNCHANGED <<route, body, apiKey>>
  /\ UNCHANGED <<engine, page>>

OptimizeCompleted == Sanitized("optimize")
RefineCompleted == Sanitized("refine")

\* parsed.data.clarifications ? ... : "": whether the clarifications are redacted
Clarified(b) == b.clarifications.present /\ b.clarifications.v # <<>>

\* the texts a score route passes through redactPII
ScoreTexts(b, clarifying) ==
  <<b.jobText.v, b.resumeBefore.v, b.resumeAfter.v>>
    \o (IF clarifying /\ Clarified(b) THEN <<b.clarifications.v>> ELSE <<>>)

\* POST of a score route, up to the LLM call; clarifying tells whether the
\* route takes clarifications
ScoreRequest(r, ok, clarifying) ==
  \E b \in Bodies, key \in BOOLEAN :
    /\ Arrives(r, b, key)
    /\ UNCHANGED content
    /\ IF ~ok[b] THEN Responds(Failure(400, "Invalid input"), <<>>)
       ELSE IF ~key THEN Responds(Failure(500, "Server not configured: missing OPENAI_API_KEY"), <<>>)
       ELSE Awaits(RedactCalls(b, ScoreTexts(b, clarifying)),
                   RedactedTexts(b, ScoreTexts(b, clarifying))
                     \o (IF clarifying /\ ~Clarified(b) THEN <<<<>>>> ELSE <<>>))

ScorePOST == ScoreRequest("score", [b \in Bodies |-> ScoreReqOk(b)], TRUE)
ScoreV1POST == ScoreRequest("scoreV1", [b \in Bodies |-> ScoreV1ReqOk(b)], FALSE)

\* a score route's answer to the data the schema kept
ScoreAnswer(scored) ==
  IF ~scored.success THEN Failure(502, "Model returned unexpected schema")
  ELSE [NoResponse EXCEPT !.status = 200, !.data = scored.data]

\* a score route's answer to the parsed content
ParsedAnswer(parsed, lists) ==
  IF ~parsed.ok THEN Failure(502, "Model returned invalid JSON")
  ELSE ScoreAnswer(ScoreSchemaParse(parsed.data, lists))

\* the rest of a score handler, once the LLM call has ended
Scored(r, lists) ==
  /\ route = r
  /\ at = "awaiting"
  /\ \E completion \in Completions :
       IF ~completion.resolved
       THEN /\ Responds(Unhandled, <<>>)
            /\ UNCHANGED content
       ELSE /\ content' = ContentOf(completion)
            /\ Responds(ParsedAnswer(JSONParse(ContentOf(completion)), lists), <<>>)
  /\ UNCHANGED <<route, body, apiKey>>
  /\ UNCHANGED <<engine, page>>

ScoreCompleted == Scored("score", ScoreLists)
ScoreV1Completed == Scored("scoreV1", ScoreV1Lists)

RouteNext ==
  \/ OptimizePOST
  \/ OptimizeCompleted
  \/ RefinePOST
  \/ RefineCompleted
  \/ ScorePOST
  \/ ScoreCompleted
  \/ ScoreV1POST
  \/ ScoreV1Completed

RouteSpec == Init /\ [][RouteNext]_vars

\* ------------------------------------------------- the page, handler by handler

\* The page's state setters take effect when the running piece of a handler
\* reaches its next await or its end; an action is such a piece.  The text
\* fields are taken to hold texts long enough for the buttons to be enabled.

\* the buttons 'Weiter', 'Zurück' and 'Neue Optimierung': setStep(to)
Navigate ==
  /\ \E to \in 1..3 :
       /\ \/ step \in 1..3 /\ to \in {step - 1, step + 1}
          \/ step = 4 /\ ~resultObj.null /\ to = 3
       /\ step' = to
  /\ UNCHANGED <<form, busy, error, resultObj, score, baselineBeforeScore, scoreStatus,
                 refineBusy, submitting, refining, optimized>>
  /\ UNCHANGED <<engine, routes>>

\* another job ad or resume is typed, pasted or read from a PDF
Edit ==
  /\ step \in {2, 3}
  /\ form < MaxForms
  /\ form' = form + 1
  /\ UNCHANGED <<step, busy, error, resultObj, score, baselineBeforeScore, scoreStatus,
                 refineBusy, submitting, refining, optimized>>
  /\ UNCHANGED <<engine, routes>>

\* onSubmit, up to its await of the optimize route
Submit ==
  /\ step = 3
  /\ ~busy
  /\ error' = ""
  /\ resultObj' = NoResult
  /\ score' = NoScore
  /\ scoreStatus' = "loading"
  /\ busy' = TRUE
  /\ submitting' = InFlight("optimize", baselineBeforeScore, form)
  /\ UNCHANGED <<step, form, baselineBeforeScore, refineBusy, refining, optimized>>
  /\ UNCHANGED <<engine, routes>>

\* the refine button's onClick, up to its await of the refine route
Refine ==
  /\ step = 4
  /\ ~resultObj.null
  /\ resultObj.questions
  /\ ~refineBusy
  /\ refineBusy' = TRUE
  /\ error' = ""
  /\ score' = NoScore
  /\ scoreStatus' = "loading"
  /\ refining' = InFlight("refine", baselineBeforeScore, form)
  /\ UNCHANGED <<step, form, busy, resultObj, baselineBeforeScore, submitting, optimized>>
  /\ UNCHANGED <<engine, routes>>

\* what a handler sets when its awaited route has not given a result: the
\* early return of a response that is not OK, or the catch block
Failed(outcome) ==
  error' = IF outcome = "notOk" THEN "Fehler" ELSE "Netzwerk-/Parsingfehler"

\* onSubmit goes on after its await of the optimize route: to its end, or
\* into fetchScore, up to the await of the score route
OptimizeAnswered ==
  /\ submitting.awaits = "optimize"
  /\ \E outcome \in Outcomes, questions \in BOOLEAN :
       IF outcome # "parsed"
       THEN /\ Failed(outcome)
            /\ busy' = FALSE
            /\ submitting' = NotRunning
            /\ UNCHANGED <<step, resultObj, scoreStatus>>
       ELSE /\ resultObj' = ResultObj(questions)
            /\ step' = 4
            /\ scoreStatus' = "loading"
            /\ submitting' = [submitting EXCEPT !.awaits = "score"]
            /\ UNCHANGED <<busy, error>>
  /\ UNCHANGED <<form, score, baselineBeforeScore, refineBusy, refining, optimized>>
  /\ UNCHANGED <<engine, routes>>

\* the same for the refine button's onClick and the refine route
RefineAnswered ==
  /\ refining.awaits = "refine"
  /\ \E outcome \in Outcomes, questions \in BOOLEAN :
       IF outcome # "parsed"
       THEN /\ Failed(outcome)
            /\ refineBusy' = FALSE
            /\ refining' = NotRunning
            /\ UNCHANGED <<resultObj, scoreStatus>>
       ELSE /\ resultObj' = ResultObj(questions)
            /\ scoreStatus' = "loading"
            /\ refining' = [refining EXCEPT !.awaits = "score"]
            /\ UNCHANGED <<refineBusy, error>>
  /\ UNCHANGED <<step, form, busy, score, baselineBeforeScore, submitting, optimized>>
  /\ UNCHANGED <<engine, routes>>

\* The rest of fetchScore, called by the handler `call` with opts.lockBefore,
\* once the score route has answered: ok tells whether the response was
\* read and OK, s is its body.  baselineBeforeScore is read from the
\* closure of the render the handler was made in.
NextBeforeScore(call, lockBefore, s) ==
  IF lockBefore /\ ~call.baselineBeforeScore.null
  THEN call.baselineBeforeScore.n
  ELSE s.score_before
FetchScoreEnds(call, lockBefore, ok, s) ==
  IF ~ok
  THEN /\ scoreStatus' = "error"
       /\ UNCHANGED <<score, baselineBeforeScore>>
  ELSE /\ baselineBeforeScore' = IF ~lockBefore /\ call.baselineBeforeScore.null
                                 THEN Number(s.score_before)
                                 ELSE baselineBeforeScore
       /\ score' = Score(NextBeforeScore(call, lockBefore, s), s.score_after)
       /\ scoreStatus' = "idle"

\* onSubmit's fetchScore({ ..., lockBefore: false }) ends, then onSubmit
SubmitScored ==
  /\ submitting.awaits = "score"
  /\ \E ok \in BOOLEAN, s \in [score_before : Scores, score_after : Scores] :
       /\ FetchScoreEnds(submitting, FALSE, ok, s)
       /\ optimized' = IF ok THEN ScoredFor(submitting.form, s.score_before) ELSE optimized
  /\ busy' = FALSE
  /\ submitting' = NotRunning
  /\ UNCHANGED <<step, form, error, resultObj, refineBusy, refining>>
  /\ UNCHANGED <<engine, routes>>

\* the onClick's fetchScore({ ..., lockBefore: true }) ends, then the onClick
RefineScored ==
  /\ refining.awaits = "score"
  /\ \E ok \in BOOLEAN, s \in [score_before : Scores, score_after : Scores] :
       FetchScoreEnds(refining, TRUE, ok, s)
  /\ refineBusy' = FALSE
  /\ refining' = NotRunning
  /\ UNCHANGED <<step, form, busy, error, resultObj, submitting, optimized>>
  /\ UNCHANGED <<engine, routes>>

PageNext ==
  \/ Navigate
  \/ Edit
  \/ Submit
  \/ OptimizeAnswered
  \/ SubmitScored
  \/ Refine
  \/ RefineAnswered
  \/ RefineScored

PageSpec == Init /\ [][PageNext]_vars

\* ---------------------------------------------------------------- properties

\* a letter, digit or underscore of any script the texts use
LetterOrDigit == UniLetter \cup Digit \cup {"_"}

\* d stands in t as a whole word: between characters that are no letters,
\* digits or underscores, or at an end of t
WholeWordOccurs(d, t) ==
  \E p \in 1..(Len(t) - Len(d) + 1) :
    /\ SubSeq(t, p, p + Len(d) - 1) = d
    /\ (p = 1 \/ t[p - 1] \notin LetterOrDigit)
    /\ (p + Len(d) - 1 = Len(t) \/ t[p + Len(d)] \notin LetterOrDigit)

\* C1: when a display name is supplied (non-empty after trimming), the text
\* redactPII returns contains no whole-word occurrence of it, whatever
\* characters the name starts or ends with.
DisplayNameGone ==
  pc = "done" /\ TrimmedName(opts) # <<>> => ~WholeWordOccurs(TrimmedName(opts), text)

\* C2: when the input contains a well-formed email address (the email shape
\* matches in it), the returned text contains no occurrence of an address the
\* email pass matched and contains at least one EMAIL_ placeholder.
EmailGone ==
  pc = "done" /\ Test(EmailRe, input) =>
    /\ \A k \in 1..Len(redactions) :
         redactions[k].type = "EMAIL" => ~Occurs(redactions[k].match, text)
    /\ Occurs(<<"E","M","A","I","L","_">>, text)

\* C3: for every input and options, assertNoPIILeakage on the text redactPII
\* returned reports hasEmail = false.
AuditFindsNoEmail == audit.done => ~audit.hasEmail

\* C4: without a display name, redactPII on the text a first call returned
\* records no redaction and returns that text unchanged.
RerunChangesNothing ==
  pc = "done" /\ calls = 2 /\ ~opts.given /\ ~first.opts.given /\ input = first.text =>
    redactions = <<>> /\ text = input

\* C5: placeholders are inert, so every audit record's replacement occurs
\* intact in the returned text.
PlaceholdersIntact ==
  pc = "done" => \A k \in 1..Len(redactions) : Occurs(redactions[k].replacement, text)

\* the positions of the LLM call in the trace
LlmAt == {k \in 1..Len(trace) : trace[k].op = "llm"}

\* the strings of a response body that the model produced
ModelStrings(resp) ==
  (IF resp.result THEN {resp.resultJson} ELSE {})
    \cup UNION {{resp.data[j].v.items[m].s : m \in 1..Len(resp.data[j].v.items)} :
                  j \in {j \in 1..Len(resp.data) : resp.data[j].v.t = "arr"}}

\* C6: in every route that returns content produced by the LLM, every
\* model-produced string of the response body is the output of a redactPII
\* call made after the LLM call.
OutputSanitized ==
  at = "responded" /\ response.status = 200 =>
    \A str \in ModelStrings(response) :
      \E k \in 1..Len(trace) :
        /\ trace[k].op = "redactPII"
        /\ \E l \in LlmAt : l < k
        /\ RedactedText(trace[k].arg, trace[k].name) = str

\* the user-supplied texts a route places in its prompt
PromptTexts(r, b) ==
  IF r = "optimize" THEN <<b.jobText.v, b.resumeText.v>>
  ELSE <<b.jobText.v, b.resumeText.v, b.answers.v>>

\* C7: in the optimize and refine routes, every text of the prompt is the
\* output of a redactPII call (with the request's displayName) on the
\* user-supplied text, made before the LLM call; after the call redactPII is
\* applied to the model content, then assertNoPIILeakage to that redacted
\* output, and resultJson is exactly the redacted output.
SanitizingOrder ==
  route \in {"optimize", "refine"} =>
    LET displayName == body.displayName.v
        texts == PromptTexts(route, body)
        n == Len(trace)
    IN /\ \A k \in LlmAt :
            /\ trace[k].prompt = [j \in 1..Len(texts) |-> RedactedText(texts[j], displayName)]
            /\ \A j \in 1..Len(texts) :
                 \E m \in 1..(k - 1) : trace[m] = Redacted(texts[j], displayName)
       /\ at = "responded" /\ response.status = 200 =>
            /\ n >= 3
            /\ trace[n - 2].op = "llm"
            /\ trace[n - 1] = Redacted(content, displayName)
            /\ trace[n] = Audited(RedactedText(content, displayName))
            /\ response.resultJson = RedactedText(content, displayName)
            /\ response.leakage = assertNoPIILeakage(response.resultJson)

\* an optimize request answered with a model content that held the name and
\* an email address
SanitizingOrderWitness ==
  /\ route = "optimize"
  /\ at = "responded"
  /\ response.status = 200
  /\ content = Prose
  /\ response.resultJson # content

\* C8: redactPII is total: no call throws, whatever the input and the
\* displayName (absent, empty, blank, or holding regex metacharacters).
NeverThrows == pc # "threw"

\* a call with the display name "(" on a text with an unmatched bracket has returned
NeverThrowsWitness ==
  /\ pc = "done"
  /\ opts = Name(<<"(">>)
  /\ input = <<"[","E","M","A","I","L","_">>

\* C9: when redactPII returns an empty redactions list, the returned text is
\* the input string.
ZeroMatchKeepsText == pc = "done" /\ redactions = <<>> => text = input

\* a call whose only candidates were years next to a date separator has
\* returned without a redaction
ZeroMatchWitness ==
  /\ pc = "done"
  /\ redactions = <<>>
  /\ input = <<" ","2","0","2","0","-","2","0","2","3">>

\* whether record k is the first of its type in the list rs
FirstOfType(rs, k) == \A j \in 1..(k - 1) : rs[j].type # rs[k].type

\* C10: redactPII(s, o) returns the same text and audit list as when it was
\* called first, whatever calls were made in between, and in every call the
\* first match of each category is numbered 1.
Stateless ==
  pc = "done" =>
    /\ first.done /\ input = first.input /\ opts = first.opts =>
         text = first.text /\ redactions = first.redactions
    /\ \A k \in 1..Len(redactions) :
         FirstOfType(redactions, k) =>
           redactions[k].replacement = Replacement(redactions[k].type, 1)

\* the first call's arguments have been passed again after two other calls,
\* and the call redacted something
StatelessWitness ==
  /\ pc = "done"
  /\ calls = 3
  /\ input = first.input
  /\ opts = first.opts
  /\ input # first.text
  /\ redactions # <<>>

\* the values of RedactionPlaceholder
Types == {"EMAIL", "PHONE", "ADDRESS", "POSTAL_CODE", "DOB", "DATE", "URL", "ID", "NAME"}

\* r is '[' T '_' N ']' for the name T of type and a decimal number N >= 1
IsToken(r, type) ==
  /\ Len(r) >= Len(TypeName(type)) + 4
  /\ r[1] = "["
  /\ SubSeq(r, 2, Len(TypeName(type)) + 1) = TypeName(type)
  /\ r[Len(TypeName(type)) + 2] = "_"
  /\ r[Len(TypeName(type)) + 3] \in Digit \ {"0"}
  /\ \A k \in (Len(TypeName(type)) + 4)..(Len(r) - 1) : r[k] \in Digit
  /\ r[Len(r)] = "]"

\* the replacement of an audit record has the form of its type
WellFormed(rec) ==
  /\ rec.type \in Types
  /\ IF rec.type = "DOB"
     THEN /\ Len(rec.replacement) > 5
          /\ SubSeq(rec.replacement, 1, 5) = <<"D","O","B",":"," ">>
          /\ IsToken(SubSeq(rec.replacement, 6, Len(rec.replacement)), "DOB")
     ELSE IsToken(rec.replacement, rec.type)

\* C11: every audit record's replacement is '[' T '_' N ']' with T the
\* record's type and N >= 1, for DOB records after the literal 'DOB: '; and
\* the token a block writes into the text is that replacement: it stands in
\* the text the block leaves.
PlaceholderFormat ==
  /\ [](\A k \in 1..Len(redactions) : WellFormed(redactions[k]))
  /\ [][\A k \in (Len(redactions) + 1)..Len(redactions') :
          Occurs(redactions'[k].replacement, text')]_vars

\* a call has returned with a DOB record whose replacement stands in the text
PlaceholderFormatWitness ==
  /\ pc = "done"
  /\ \E k \in 1..Len(redactions) :
       redactions[k].type = "DOB" /\ Occurs(redactions[k].replacement, text)

\* the categories of the regular-expression blocks
RegexTypes == {"EMAIL", "URL", "PHONE", "POSTAL_CODE", "ADDRESS", "DOB", "DATE", "ID"}

\* how many records before the k-th of rs have its type
EarlierOfType(rs, k) == Cardinality({j \in 1..(k - 1) : rs[j].type = rs[k].type})

\* C12: for each category of a regular-expression block, the k-th audit
\* record of the category carries number k, from 1 on; a candidate the phone
\* or the postal-code block skips takes no number.
NumberedInOrder ==
  \A k \in 1..Len(redactions) :
    redactions[k].type \in RegexTypes =>
      redactions[k].replacement
        = Replacement(redactions[k].type, EarlierOfType(redactions, k) + 1)

\* the text of the first match of re in s (empty when there is none)
FirstMatchText(s, m) == IF m.start = 0 THEN <<>> ELSE SubSeq(s, m.start, m.end - 1)

\* a call has returned whose first postal-code candidate was a year the
\* block skipped, and a later candidate was recorded
NumberedInOrderWitness ==
  /\ pc = "done"
  /\ Test(YearRe, FirstMatchText(input, Find(PostalRe, input, 1)))
  /\ \E k \in 1..Len(redactions) :
       /\ redactions[k].type = "POSTAL_CODE"
       /\ redactions[k].index.n > Find(PostalRe, input, 1).start

\* the first non-empty line of s, trimmed (empty when s has none)
FirstLine(lines, idx) == IF idx = 0 THEN <<>> ELSE Trim(lines[idx])
FirstNonEmptyLine(s) == FirstLine(Split(LineBreakRe, s), FindIndexNonEmpty(Split(LineBreakRe, s), 1))

\* C13: if the first non-empty line of the text satisfied the name-line
\* heuristic, the text the call returns contains no literal occurrence of
\* that line anywhere.
NameLineGone ==
  [][pc = "nameline" /\ pc' = "done" /\ looksLikeName(FirstNonEmptyLine(text))
       => ~Occurs(FirstNonEmptyLine(text), text')]_vars

\* a 4-digit 19xx/20xx year stands alone at position p of s
YearAt(s, p) ==
  /\ MatchAt(PostalRe, s, p).end = p + 4
  /\ Test(YearRe, SubSeq(s, p, p + 3))

\* a '.' or '/' stands among the 10 characters before position p of s
SeparatorBefore(s, p) == \E q \in Max(1, p - 10)..(p - 1) : s[q] \in {".", "/"}

\* C14: a 4-digit 19xx/20xx year of the input that has a '.' or '/' within
\* the 10 characters before it is never replaced by a POSTAL_CODE
\* placeholder, also when that '.' or '/' belongs to an email address or a
\* URL: when every year of the input stands so, no POSTAL_CODE record is a
\* year.
YearAfterSeparatorKept ==
  (/\ pc = "done"
   /\ \E p \in 1..Len(input) : YearAt(input, p)
   /\ \A p \in 1..Len(input) : YearAt(input, p) => SeparatorBefore(input, p))
    => \A k \in 1..Len(redactions) :
         redactions[k].type = "POSTAL_CODE" => ~Test(YearRe, redactions[k].match)

\* how often sub occurs in s
CountOf(sub, s) ==
  Cardinality({p \in 1..(Len(s) - Len(sub) + 1) : SubSeq(s, p, p + Len(sub) - 1) = sub})

\* the records of a type in a list
OfType(rs, type) == SelectSeq(rs, LAMBDA r : r.type = type)

\* C15: an input that is a street name with one of the street suffixes,
\* white space and a house number of 1 to 4 digits with an optional letter
\* (the whole input has the address shape) produces exactly one ADDRESS
\* record, whose match is the whole span, and exactly one ADDRESS_
\* placeholder in the output.
AddressWhole ==
  pc = "done" /\ MatchAt(AddressRe, input, 1).end = Len(input) + 1 =>
    /\ Len(OfType(redactions, "ADDRESS")) = 1
    /\ OfType(redactions, "ADDRESS")[1].match = input
    /\ CountOf(<<"A","D","D","R","E","S","S","_">>, text) = 1

\* the conclusion of C16 for the label and date matched as m at the start
\* of the input
DobRecorded(m) ==
  /\ Len(OfType(redactions, "DOB")) = 1
  /\ OfType(redactions, "DOB")[1].match = SubSeq(input, 1, m.end - 1)
  /\ Occurs(<<"D","O","B",":"," ","[","D","O","B","_","1","]">>, text)
  /\ m.end = Len(input) + 1 =>
       \A k \in 1..Len(redactions) :
         redactions[k].type \notin {"DATE", "PHONE", "POSTAL_CODE"}

\* the premise of C16: m is a match, and the only one in the input
DobLabelled(m) == m.start # 0 /\ Find(DobRe, input, m.end).start = 0

\* C16: an input that starts with a DOB label followed by a date in D.M.Y,
\* D-M-Y, D/M/Y or YYYY-MM-DD form produces exactly one DOB record, whose
\* match is the whole label and date; the output contains 'DOB: [DOB_1]';
\* and when the input is the label and date alone, no DATE, PHONE or
\* POSTAL_CODE record is produced.
DobWhole ==
  pc = "done" /\ DobLabelled(MatchAt(DobRe, input, 1))
    => DobRecorded(MatchAt(DobRe, input, 1))

\* 4 digits, optional space, hyphen, optional space, 4 digits
YearRangeShape ==
  Cat(<<Rep(D, 4, 4), Opt(Set(Space)), Ch("-"), Opt(Set(Space)), Rep(D, 4, 4)>>)

\* a span of that shape stands at position p of s, up to before position e,
\* with no digit on either side
YearRangeAt(s, p, e) ==
  /\ e # 0
  /\ p = 1 \/ s[p - 1] \notin Digit
  /\ e > Len(s) \/ s[e] \notin Digit

\* the record r of the phone block covers some position of p..(e - 1)
Covers(r, p, e) == r.index.n + 1 < e /\ r.index.n + Len(r.match) >= p

\* C17: a span of the shape 4 digits, optional space, hyphen, optional
\* space, 4 digits is left untouched by the phone block: no PHONE record the
\* block adds covers any part of it.
YearRangeKept ==
  [][pc = "phone" =>
       \A p \in 1..Len(text) :
         YearRangeAt(text, p, MatchAt(YearRangeShape, text, p).end) =>
           \A k \in (Len(redactions) + 1)..Len(redactions') :
             ~Covers(redactions'[k], p, MatchAt(YearRangeShape, text, p).end)]_vars

\* the premise of C18: d is a capitalized name of 2 to 4 tokens and the
\* whole first line, the last line is an email address, and the lines
\* between hold neither
NameOnTop(d, lines) ==
  /\ AreNameTokens(Tokens(d))
  /\ Len(lines) >= 2
  /\ lines[1] = d
  /\ lines[Len(lines)] # <<>>
  /\ MatchAt(EmailRe, lines[Len(lines)], 1).end = Len(lines[Len(lines)]) + 1
  /\ \A j \in 2..(Len(lines) - 1) : ~Occurs(d, lines[j]) /\ ~Occurs(<<"@">>, lines[j])

\* the conclusion of C18, out being the lines of the returned text
NameAndEmailGone(d, email, out) ==
  /\ ~Occurs(d, text)
  /\ ~Occurs(email, text)
  /\ IsToken(out[1], "NAME")
  /\ CountOf(<<"N","A","M","E","_">>, text) = 1
  /\ CountOf(<<"E","M","A","I","L","_">>, text) = 1
  /\ Len(OfType(redactions, "NAME")) = 1

\* C18: when the display name is a capitalized name of 2 to 4 tokens that is
\* the whole first line of the input and an email address stands on a later
\* line, the returned text holds neither the name nor the address, its
\* first line is one NAME_ placeholder, it holds exactly one NAME_ and one
\* EMAIL_ placeholder, and there is one NAME record only.
NameAndEmailCase ==
  pc = "done" /\ opts.given /\ NameOnTop(TrimmedName(opts), Split(LineBreakRe, input))
    => NameAndEmailGone(TrimmedName(opts), Split(LineBreakRe, input)[Len(Split(LineBreakRe, input))],
                        Split(LineBreakRe, text))

\* the place of a record's category in the order the detectors run
Rank(type) ==
  CASE type = "EMAIL" -> 1
    [] type = "URL" -> 2
    [] type = "PHONE" -> 3
    [] type = "POSTAL_CODE" -> 4
    [] type = "ADDRESS" -> 5
    [] type = "DOB" -> 6
    [] type = "DATE" -> 7
    [] type = "ID" -> 8
    [] type = "NAME" -> 9

\* the first position from `from` on at which sub stands in s, 0 for none
FirstOccurrence(sub, s, from) ==
  IF \E p \in from..(Len(s) - Len(sub) + 1) : SubSeq(s, p, p + Len(sub) - 1) = sub
  THEN CHOOSE p \in from..(Len(s) - Len(sub) + 1) :
         /\ SubSeq(s, p, p + Len(sub) - 1) = sub
         /\ \A q \in from..(p - 1) : SubSeq(s, q, q + Len(sub) - 1) # sub
  ELSE 0

\* the matches of the records rs from the k-th on stand in src one after
\* the other, from position `from` on
RECURSIVE LeftToRight(_, _, _, _)
LeftToRight(src, from, rs, k) ==
  \/ k > Len(rs)
  \/ /\ FirstOccurrence(rs[k].match, src, from) # 0
     /\ LeftToRight(src, FirstOccurrence(rs[k].match, src, from) + Len(rs[k].match), rs, k + 1)

\* the records rs that carry an offset carry ascending ones, each the place
\* of its match in src (the name-line record carries 0 wherever its line is)
AscendingOffsets(src, rs) ==
  \A k \in 1..Len(rs) :
    rs[k].index.kind = "number" =>
      /\ SubSeq(src, rs[k].index.n + 1, rs[k].index.n + Len(rs[k].match)) = rs[k].match
         \/ pc = "nameline"
      /\ \A j \in 1..(k - 1) : rs[j].index.kind = "number" => rs[j].index.n < rs[k].index.n

\* the records a step adds, given the lists before and after it
Added(before, after) == SubSeq(after, Len(before) + 1, Len(after))

\* C19: the audit records stand in the order the detectors ran: EMAIL, URL,
\* PHONE, POSTAL_CODE, ADDRESS, DOB, DATE, ID, then NAME, wherever the
\* matches lie in the text; each block appends its records behind those
\* already there (the name-line record comes last), and the records of one
\* block follow the order of their matches in the block's text, left to
\* right.
AuditOrder ==
  /\ [](\A k \in 1..Len(redactions) : \A j \in 1..(k - 1) :
          Rank(redactions[j].type) <= Rank(redactions[k].type))
  /\ [][pc \notin {"idle", "done"} =>
          /\ Len(redactions') >= Len(redactions)
          /\ SubSeq(redactions', 1, Len(redactions)) = redactions
          /\ LeftToRight(text, 1, Added(redactions, redactions'), 1)
          /\ AscendingOffsets(text, Added(redactions, redactions'))
          /\ pc = "nameline" => Len(redactions') <= Len(redactions) + 1]_vars

\* a call has returned in which a record stands before another whose match
\* lay to the left of its own
AuditOrderWitness ==
  /\ pc = "done"
  /\ \E k \in 1..Len(redactions) : \E j \in 1..(k - 1) :
       /\ redactions[j].type # redactions[k].type
       /\ redactions[j].index.kind = "number"
       /\ redactions[k].index.kind = "number"
       /\ redactions[j].index.n > redactions[k].index.n
  /\ \E k \in 1..Len(redactions) : \E j \in 1..(k - 1) :
       redactions[j].type = redactions[k].type

\* the characters s[a..b] all lie in S
AllIn(s, a, b, S) == \A q \in a..b : s[q] \in S

\* t holds an email-shaped substring around the '@' at position a: a local
\* part that starts at a word boundary, a domain, a dot, and two or more
\* letters that end at a word boundary
EmailShapedAt(t, a) ==
  /\ \E s \in 1..(a - 1) :
       /\ IsWordBoundary(t, s)
       /\ AllIn(t, s, a - 1, AsciiLetter \cup Digit \cup {".", "_", "%", "+", "-"})
  /\ \E d \in (a + 2)..Len(t) :
       /\ t[d] = "."
       /\ AllIn(t, a + 1, d - 1, AsciiLetter \cup Digit \cup {".", "-"})
       /\ \E e \in (d + 2)..Len(t) :
            AllIn(t, d + 1, e, AsciiLetter) /\ IsWordBoundary(t, e + 1)
EmailShaped(t) == \E a \in 1..Len(t) : t[a] = "@" /\ EmailShapedAt(t, a)

\* lit stands at position p of t, in whatever case
StandsAt(lit, t, p) ==
  /\ p + Len(lit) - 1 <= Len(t)
  /\ \A k \in 1..Len(lit) : t[p + k - 1] \in CaseVariants(lit[k])

\* t holds 'http://' or 'https://' at a word boundary
HttpShaped(t) ==
  \E p \in 1..Len(t) :
    /\ IsWordBoundary(t, p)
    /\ \/ StandsAt(<<"h","t","t","p",":","/","/">>, t, p)
       \/ StandsAt(<<"h","t","t","p","s",":","/","/">>, t, p)

\* C20: assertNoPIILeakage(t) gives hasEmail = true exactly when t holds an
\* email-shaped substring and hasUrl = true exactly when t holds 'http://'
\* or 'https://' at a word boundary (in whatever case); it returns these two
\* booleans only, evaluating it again gives the same result, and the call
\* changes neither the text nor the audit list.
AuditExact ==
  /\ [](audit.done =>
          /\ audit.hasEmail = EmailShaped(audit.of)
          /\ audit.hasUrl = HttpShaped(audit.of)
          /\ DOMAIN assertNoPIILeakage(audit.of) = {"hasEmail", "hasUrl"}
          /\ assertNoPIILeakage(audit.of) = [hasEmail |-> audit.hasEmail, hasUrl |-> audit.hasUrl])
  /\ [][audit'.done /\ ~audit.done =>
          audit'.of = text /\ text' = text /\ redactions' = redactions]_vars

\* the auditor has reported a URL written in capitals, and no email address
AuditExactWitness ==
  /\ audit.done
  /\ audit.hasUrl
  /\ ~audit.hasEmail
  /\ Occurs(<<"H","T","T","P">>, audit.of)


\* the record r carries a number as its index, and its match stands at that
\* offset in src
AtItsOffset(src, r) ==
  /\ r.index.kind = "number"
  /\ SubSeq(src, r.index.n + 1, r.index.n + Len(r.match)) = r.match

\* C21: for every audit record r, r.match stands at character offset r.index
\* in the text as it stood when the block that produced r started; this
\* holds for all nine categories, the NAME record of the name-line heuristic
\* included, also when blank lines or white space precede the first
\* non-empty line.
OffsetsAtMatchTime ==
  [][\A k \in 1..Len(Added(redactions, redactions')) :
       AtItsOffset(text, Added(redactions, redactions')[k])]_vars


\* the whole of s is one match of the id expression
IsIdToken(s) == s # <<>> /\ MatchAt(IdRe, s, 1).start = 1 /\ MatchAt(IdRe, s, 1).end = Len(s) + 1

\* C22: an input token that is IBAN-like (2 letters, 2 digits, 11 to 30
\* alphanumerics), a bare 11-digit sequence or a grouped NN/NNN/NNN/NNN tax
\* id is replaced by an ID placeholder and recorded with type ID; neither
\* the phone block nor the postal-code block takes it, or a part of it,
\* first.
IdTokenRecorded ==
  pc = "done" /\ IsIdToken(input) =>
    /\ text = stableToken("ID", 1)
    /\ Len(redactions) = 1
    /\ redactions[1].type = "ID"
    /\ redactions[1].match = input


\* t starts with an upper-case letter and goes on with letters, apostrophes
\* or hyphens only
IsNameToken(t) ==
  /\ Len(t) >= 2
  /\ t[1] \in Upper \cup UmlautUpper
  /\ \A k \in 2..Len(t) : t[k] \in UniLetter \cup {"'", "-"}

\* the organizational markers
OrgMarkers ==
  { <<"G","m","b","H">>, <<"A","G">>, <<"U","G">>, <<"I","n","c",".">>, <<"L","L","C">>, <<"U","n","i","v","e","r","s","i","t","y">>,
    <<"U","n","i","v","e","r","s","i","t",aUml,"t">>, <<"H","o","c","h","s","c","h","u","l","e">> }

\* the line is 2 to 4 such tokens and holds none of the markers
NameShaped(line) ==
  /\ Len(Tokens(line)) \in 2..4
  /\ \A k \in 1..Len(Tokens(line)) : IsNameToken(Tokens(line)[k])
  /\ \A m \in OrgMarkers : ~Occurs(m, line)

\* the step of the name-line heuristic replaced the first non-empty line
\* `line` and recorded it
LineReplaced(line) ==
  /\ Len(redactions') = Len(redactions) + 1
  /\ SubSeq(redactions', 1, Len(redactions)) = redactions
  /\ redactions'[Len(redactions')].type = "NAME"
  /\ redactions'[Len(redactions')].match = line
  /\ redactions'[Len(redactions')].replacement = stableToken("NAME", 1)
  /\ FirstNonEmptyLine(text') = stableToken("NAME", 1)

\* C23: with or without a display name, if the first non-empty line of the
\* text as the earlier blocks left it is 2 to 4 white-space-separated tokens,
\* each an upper-case letter (umlauts included) followed by letters,
\* apostrophes or hyphens only, and the line holds no organizational marker
\* (GmbH, AG, UG, Inc., LLC, University, Universitaet with a-umlaut, Hochschule), the whole
\* line is replaced by [NAME_1] and one NAME record is appended; otherwise
\* the heuristic changes nothing.  An absent, null or blank display name
\* switches off the exact-match block only.
NameLineRule ==
  /\ [][pc = "nameline" /\ pc' = "done" =>
          IF NameShaped(FirstNonEmptyLine(text))
          THEN LineReplaced(FirstNonEmptyLine(text))
          ELSE text' = text /\ redactions' = redactions]_vars
  /\ [][pc = "name" /\ TrimmedName(opts) = <<>> =>
          pc' = "nameline" /\ text' = text /\ redactions' = redactions]_vars


\* a standalone run of n digits stands at position p of s
StandaloneRun(s, p, n) ==
  /\ p + n - 1 <= Len(s)
  /\ AllIn(s, p, p + n - 1, Digit)
  /\ IsWordBoundary(s, p)
  /\ IsWordBoundary(s, p + n)
StandaloneRuns(s) == {r \in (1..Len(s)) \X {4, 5} : StandaloneRun(s, r[1], r[2])}

\* the run is a 19xx/20xx year with '.', '-' or '/' among the 10 characters
\* before it or the 10 characters after it
YearInDateContext(s, p, n) ==
  /\ n = 4
  /\ SubSeq(s, p, p + 1) \in {<<"1","9">>, <<"2","0">>}
  /\ \E q \in ((p - 10)..(p - 1)) \cup ((p + n)..(p + n + 9)) :
       q >= 1 /\ q <= Len(s) /\ s[q] \in {".", "-", "/"}

\* by how much the replacements of the records rs, from the k-th on, are
\* longer than their matches
RECURSIVE Growth(_, _)
Growth(rs, k) ==
  IF k > Len(rs) THEN 0
  ELSE Len(rs[k].replacement) - Len(rs[k].match) + Growth(rs, k + 1)

\* the places and the texts of the records rs
Places(rs) == {<<rs[k].index.n + 1, rs[k].match>> : k \in 1..Len(rs)}

\* C24: a standalone run of 4 or 5 digits that reaches the postal-code block
\* is left untouched if and only if it is a 19xx/20xx year and the 10
\* characters before it or the 10 characters after it hold '.', '-' or '/',
\* read from the text as the email, URL and phone blocks left it; every
\* other such run is replaced by a POSTAL_CODE placeholder.
PostalDecision ==
  [][pc = "postal" =>
       /\ Places(Added(redactions, redactions'))
            = {<<r[1], SubSeq(text, r[1], r[1] + r[2] - 1)>> :
                 r \in {q \in StandaloneRuns(text) : ~YearInDateContext(text, q[1], q[2])}}
       /\ \A k \in 1..Len(Added(redactions, redactions')) :
            /\ Added(redactions, redactions')[k].type = "POSTAL_CODE"
            /\ Added(redactions, redactions')[k].index.kind = "number"
            /\ Occurs(Added(redactions, redactions')[k].replacement, text')
       /\ Len(text') - Len(text) = Growth(Added(redactions, redactions'), 1)
       /\ \A r \in StandaloneRuns(text) :
            YearInDateContext(text, r[1], r[2]) => Occurs(SubSeq(text, r[1], r[1] + r[2] - 1), text')]_vars

\* the postal-code block has run on a text whose email address it found
\* replaced: it took one year and left another, which has a separator near
PostalDecisionWitness ==
  /\ pc = "address"
  /\ \E k \in 1..Len(redactions) :
       redactions[k].type = "POSTAL_CODE" /\ Test(YearRe, redactions[k].match)
  /\ \E p \in 1..Len(text) : StandaloneRun(text, p, 4) /\ YearInDateContext(text, p, 4)
  /\ Occurs(stableToken("EMAIL", 1), text)


\* the request body passes the schema of the route it was sent to
RequestOk(r, b) ==
  CASE r = "optimize" -> OptimizeReqOk(b)
    [] r = "refine" -> RefineReqOk(b)
    [] r = "score" -> ScoreReqOk(b)
    [] r = "scoreV1" -> ScoreV1ReqOk(b)
    [] OTHER -> FALSE

\* the calls of kind op the handler has made
CallsOf(op) == {k \in 1..Len(trace) : trace[k].op = op}

\* the 500 of the optimize route carries the two texts as redactPII returned
\* them, and neither as it came in
OnlyRedactedReturned ==
  /\ response.redacted = <<redactPII(body.resumeText.v, Name(body.displayName.v)).text,
                           redactPII(body.jobText.v, Name(body.displayName.v)).text>>
  /\ response.redacted[1] # body.resumeText.v
  /\ response.redacted[2] # body.jobText.v
  /\ CallsOf("redactPII") = 1..Len(trace)

\* C25: in the optimize, refine and score handlers a request whose body is
\* not valid JSON or fails the schema (null, no displayName, a text that is
\* too short) is answered with HTTP 400, and neither redactPII nor the LLM
\* is called; when OPENAI_API_KEY is missing, the answer to a valid request
\* is HTTP 500 and no LLM call is made, and the optimize route returns the
\* redacted texts only, never the raw ones.
ValidatedFirst ==
  at # "idle" =>
    /\ (~body.json \/ ~body.displayName.present \/ body.jobText.v = TooShort \/ ~RequestOk(route, body))
         => at = "responded" /\ response.status = 400 /\ trace = <<>>
    /\ RequestOk(route, body) /\ ~apiKey
         => /\ at = "responded"
            /\ response.status = 500
            /\ CallsOf("llm") = {}
            /\ route = "optimize" => OnlyRedactedReturned
            /\ route # "optimize" => trace = <<>> /\ response.redacted = <<>>

\* the optimize route has answered a valid request without a key
ValidatedFirstWitness ==
  /\ at = "responded"
  /\ route = "optimize"
  /\ RequestOk(route, body)
  /\ ~apiKey
  /\ response.status = 500
  /\ Len(response.redacted) = 2


\* C26: within one result of redactPII no two audit records carry the same
\* replacement token, so each placeholder of the output stands for exactly
\* one original substring; in particular the NAME tokens of the
\* display-name block and of the name-line heuristic differ when both act in
\* the same call.
TokensUnique ==
  \A k \in 1..Len(redactions) : \A j \in 1..(k - 1) :
    redactions[j].replacement # redactions[k].replacement


\* C27: for every string s, assertNoPIILeakage(redactPII(s).text).hasUrl is
\* false: what the auditor reports as an 'http://' or 'https://' URL the
\* URL block has replaced, also 'http://' followed by white space, ')',
\* ']' or the end of the text.
AuditFindsNoUrl == audit.done /\ audit.of = text => ~audit.hasUrl


\* C28: whenever neither an optimize nor a refine request is in flight
\* (busy = false and refineBusy = false), scoreStatus is 'idle' or 'error',
\* never 'loading', whatever the outcome of onSubmit and of 'Antworten
\* anwenden' was, a response that is not OK and an error thrown before
\* fetchScore is reached included.
ScoreStatusSettles == ~busy /\ ~refineBusy => scoreStatus \in {"idle", "error"}


\* C29: after any sequence of optimize runs and refine runs, the
\* score_before shown after a successful refine is the score_before that
\* the scoring of the most recent successful optimize run returned (the
\* baseline of the job ad and resume being refined), not that of an earlier
\* optimize run with other inputs.
BaselineOfLastRun ==
  [][(/\ refining.awaits = "score"
      /\ refining'.awaits = "none"
      /\ scoreStatus' = "idle"
      /\ optimized.form # 0)
       => score'.score_before = optimized.score_before.n]_vars

====
